---- MODULE Spec2Model ----
(***************************************************************************)
(* Model of the play-test runtime (class GameRuntime) of AC Engine 0.1:    *)
(* the rule interpreter, the physics step, the built-in collision          *)
(* consequences, scene loading and the timer-driven game loop.             *)
(*                                                                         *)
(* Lengths, positions and velocities are integers in units of 1/Scale      *)
(* pixel, so that the decimal constants of the source (gravity 0.6,        *)
(* friction 0.7, threshold 0.5) and every value the model reaches are      *)
(* represented exactly.                                                    *)
(*                                                                         *)
(* Tk runs the key handlers, the window-close handler and game_loop one    *)
(* at a time from its event loop, so a handler runs only while game_loop   *)
(* waits for its timer.  A Tk call on a destroyed widget raises TclError;  *)
(* the exception leaves game_loop, which then is not rescheduled.          *)
(***************************************************************************)
EXTENDS Integers, Sequences, FiniteSets, TLC

\* ------------------------------------------------------------------------
\* Bounds of the model
\* ------------------------------------------------------------------------

\* number of game_loop invocations that may start a tick in one session
MaxTicks == 3

\* ------------------------------------------------------------------------
\* Units and program constants
\* ------------------------------------------------------------------------

Scale == 10 ^ 6

Px(n) == n * Scale

\* e["dy"] += 0.6
GRAVITY == (6 * Scale) \div 10

\* if e["dy"] > 15: e["dy"] = 15
MAX_FALL == Px(15)

\* e["dy"] = -12
JUMP_IMPULSE == Px(0 - 12)

\* if abs(e["dx"]) < 0.5: e["dx"] = 0
FRICTION_STOP == Scale \div 2

\* p["dy"] = -8 ; self.score += 200 ; p["x"] = 50 ; p["y"] = 50
STOMP_BOUNCE == Px(0 - 8)

STOMP_SCORE == 200

RESPAWN_X == Px(50)

RESPAWN_Y == Px(50)

\* p["y"] + p["h"] - 10 < en["y"]
STOMP_TOLERANCE == Px(10)

\* if e["y"] > fh + 50 ; the 50-unit margin of "Object out of playfield"
FALL_MARGIN == Px(50)

\* [0] * 26
NUM_GLOBALS == 26

\* dict.get(key, default)
Get(d, key, default) == IF key \in DOMAIN d THEN d[key] ELSE default

\* params or {}
NoParams == [k \in {} |-> 0]

Abs(n) == IF n < 0 THEN 0 - n ELSE n

Max(a, b) == IF a > b THEN a ELSE b

Min(a, b) == IF a < b THEN a ELSE b

clamp(val, lo, hi) == Max(lo, Min(hi, val))

\* ------------------------------------------------------------------------
\* Project data model (what the editor hands to the runtime)
\* ------------------------------------------------------------------------

\* make_default_object: the fields the runtime reads
make_default_object(id, obj_type, name, x, y) ==
  LET base == [ id |-> id, type |-> obj_type, name |-> name,
                x |-> x, y |-> y, w |-> Px(32), h |-> Px(32),
                layer |-> 0, visible |-> TRUE, speed |-> 0,
                movement |-> "Static", counter_value |-> 0,
                solid |-> (obj_type \in {"Backdrop", "Platform"}),
                score_value |-> (IF obj_type = "Coin" THEN 100 ELSE 0),
                destroy_on_collect |-> (obj_type = "Coin") ]
  IN  CASE obj_type = "Platform" -> [base EXCEPT !.w = Px(96), !.solid = TRUE,
                                                 !.movement = "Static"]
        [] obj_type = "Player"   -> [base EXCEPT !.movement = "Player",
                                                 !.speed = Px(5)]
        [] obj_type = "Enemy"    -> [base EXCEPT !.movement = "Bouncing",
                                                 !.speed = Px(2)]
        [] obj_type = "Coin"     -> [base EXCEPT !.w = Px(24), !.h = Px(24)]
        [] obj_type = "Counter"  -> [base EXCEPT !.w = Px(64), !.h = Px(24)]
        [] obj_type = "Text"     -> [base EXCEPT !.w = Px(120), !.h = Px(28)]
        [] obj_type = "Trigger"  -> [base EXCEPT !.w = Px(48), !.h = Px(48),
                                                 !.visible = FALSE]
        [] obj_type = "Particle" -> [base EXCEPT !.w = Px(16), !.h = Px(16)]
        [] OTHER -> base

make_condition(cond_type, target, params) ==
  [ type |-> cond_type, target |-> target, params |-> params, negated |-> FALSE ]

Negated(cond) == [cond EXCEPT !.negated = TRUE]

make_action(action_type, target, params) ==
  [ type |-> action_type, target |-> target, params |-> params ]

make_event_group(conditions, actions) ==
  [ active |-> TRUE, comment |-> "", conditions |-> conditions, actions |-> actions ]

make_default_frame(width, height, objects, events) ==
  [ width |-> width, height |-> height, objects |-> objects, events |-> events ]

\* ------------------------------------------------------------------------
\* State
\* ------------------------------------------------------------------------

VARIABLES
  project,            \* self.project: the runtime's deep copy of the project
  current_frame_idx,  \* self.current_frame_idx (0-based, as in the source)
  running,            \* self.running
  paused,             \* self.paused
  tick,               \* self.tick
  score,              \* self.score
  lives,              \* self.lives
  global_values,      \* self.global_values (index i of the source is i + 1)
  keys,               \* the keysyms k with self.keys[k] true
  mouse_buttons,      \* self.mouse_buttons
  selected_object,    \* editor: self.selected_object, << >> for None, else << the object >>
  clipboard,          \* editor: self.clipboard, << >> for None, else << the copy >>
  entities,           \* self.entities
  frame_started,      \* self.frame_started
  next_uid,           \* the next value uid() returns
  destroyed,          \* the Tk window and its canvas have been destroyed
  drawn,              \* ids of the entities the last render drew, in drawing order
  pc,                 \* position of the game_loop callback
  ticks_run,          \* history: game_loop invocations that started a tick
  phases,             \* history: phases completed in the tick in flight
  evlog,              \* history: what the rule pass of this tick did
  seen,               \* history: groups of the loaded scene processed since the load
  onceHist,           \* history: per Once condition, its results and the loads of its scene
  oor,                \* history: an out-of-range load_frame happened in this tick
  killed,             \* history: ids marked dead by the consequence rules in this tick
  dead_checks,        \* history: collision checks of this tick that involved a dead entity
  loads,              \* history: the successful load_frame calls of this tick
  editor_project,     \* the project object of the editor that was handed to GameRuntime
  undo_stack,         \* an UndoManager: self.undo_stack, oldest snapshot first
  redo_stack,         \* an UndoManager: self.redo_stack
  max_history,        \* an UndoManager: self.max_history
  undo_calls          \* history: the calls made on the UndoManager, with their results

vars == << project, current_frame_idx, running, paused, tick, score, lives,
           global_values, keys, mouse_buttons, undo_stack, redo_stack, max_history, undo_calls, selected_object, clipboard, entities, frame_started, next_uid, destroyed,
           drawn, pc, ticks_run, phases, evlog, seen, onceHist, oor, killed,
           dead_checks, loads, editor_project, undo_stack, redo_stack, max_history,
           undo_calls >>

\* ------------------------------------------------------------------------
\* UndoManager
\* ------------------------------------------------------------------------

\* the default of max_history
MAX_HISTORY == 100

\* UndoManager.__init__
UndoManagerInit(n) ==
  /\ undo_stack = << >>
  /\ redo_stack = << >>
  /\ max_history = n
  /\ undo_calls = << >>

\* the manager as a record
UndoManager == [undo_stack |-> undo_stack, redo_stack |-> redo_stack,
                max_history |-> max_history]

\* a sequence without its last element: list.pop()
Front(seq) == SubSeq(seq, 1, Len(seq) - 1)

\* push that drops the newest snapshot when the history is full
push_DropsNewest(um, state_snapshot) ==
  LET appended == Append(um.undo_stack, state_snapshot)
  IN  [um EXCEPT !.undo_stack = IF Len(appended) > um.max_history
                                THEN Front(appended) ELSE appended,
                 !.redo_stack = << >>]

\* push: the manager after the call
push(um, state_snapshot) ==
  LET appended == Append(um.undo_stack, state_snapshot)
  IN  [um EXCEPT !.undo_stack = IF Len(appended) > um.max_history
                                THEN Tail(appended) ELSE appended,
                 !.redo_stack = << >>]

\* undo that does not keep the current state for redo
undo_ForgetsCurrent(um, current_state) ==
  IF um.undo_stack = << >>
  THEN [um |-> um, ret |-> << >>]
  ELSE [um  |-> [um EXCEPT !.undo_stack = Front(@)],
        ret |-> << um.undo_stack[Len(um.undo_stack)] >>]

\* undo: the manager after the call and what the call returns, << >> for
\* None and else << the snapshot >>
undo(um, current_state) ==
  IF um.undo_stack = << >>
  THEN [um |-> um, ret |-> << >>]
  ELSE [um  |-> [um EXCEPT !.redo_stack = Append(@, current_state),
                           !.undo_stack = Front(@)],
        ret |-> << um.undo_stack[Len(um.undo_stack)] >>]

\* redo: the manager after the call and what the call returns
redo(um, current_state) ==
  IF um.redo_stack = << >>
  THEN [um |-> um, ret |-> << >>]
  ELSE [um  |-> [um EXCEPT !.undo_stack = Append(@, current_state),
                           !.redo_stack = Front(@)],
        ret |-> << um.redo_stack[Len(um.redo_stack)] >>]

\* ------------------------------------------------------------------------
\* The runtime object as a record, for the operators that model its methods
\* ------------------------------------------------------------------------

Self ==
  [ project |-> project, current_frame_idx |-> current_frame_idx,
    running |-> running, tick |-> tick, score |-> score, lives |-> lives,
    global_values |-> global_values, entities |-> entities,
    frame_started |-> frame_started, next_uid |-> next_uid,
    destroyed |-> destroyed,
    raised |-> FALSE,      \* an exception is propagating out of the callback
    evlog |-> evlog, seen |-> seen, onceHist |-> onceHist, oor |-> oor,
    killed |-> killed, dead_checks |-> dead_checks, loads |-> loads ]

\* self.project["frames"][idx]
FrameAt(proj, idx) == proj.frames[idx + 1]

\* self.frame_ms = max(1, 1000 // self.fps)
frame_ms(proj) == Max(1, 1000 \div proj.fps)

\* the positions <<frame index, group, condition>> of the Once conditions
OncePositions(proj) ==
  { pos \in UNION { UNION { { <<f, g, c>> :
                                c \in 1..Len(FrameAt(proj, f).events[g].conditions) } :
                            g \in 1..Len(FrameAt(proj, f).events) } :
                    f \in 0..(Len(proj.frames) - 1) } :
      FrameAt(proj, pos[1]).events[pos[2]].conditions[pos[3]].type = "Once" }

\* close(): self.running = False ; self.destroy()
close(s) == [s EXCEPT !.running = FALSE, !.destroyed = TRUE]

\* the runtime fields load_frame adds to a clone of an authored object
LoadClone(obj) ==
  [ dx |-> 0, dy |-> 0, grounded |-> FALSE, alive |-> TRUE, flash_timer |-> 0,
    dir_x |-> (IF obj.movement # "Static" THEN 1 ELSE 0),
    gravity |-> (obj.movement \in {"Player", "Platform"}) ] @@ obj

\* load_frame(idx) with the clones appended to the entities of the previous
\* scene instead of replacing them
load_frame_KeepsEntities(s, idx) ==
  IF idx < 0 \/ idx >= Len(s.project.frames)
  THEN [close(s) EXCEPT !.oor = TRUE]
  ELSE IF s.destroyed
  THEN [s EXCEPT !.current_frame_idx = idx, !.raised = TRUE]
  ELSE LET objs == FrameAt(s.project, idx).objects
           ents == s.entities \o [i \in 1..Len(objs) |-> LoadClone(objs[i])]
       IN  [s EXCEPT !.current_frame_idx = idx,
                     !.entities = ents,
                     !.frame_started = TRUE,
                     !.tick = 0,
                     !.loads = Append(@, [idx |-> idx, before |-> s.entities,
                                          current_frame_idx |-> idx,
                                          entities |-> ents, tick |-> 0]),
                     !.seen = {},
                     !.onceHist = [pos \in DOMAIN s.onceHist |->
                                     IF pos[1] = idx
                                     THEN Append(s.onceHist[pos], "L")
                                     ELSE s.onceHist[pos]]]

\* load_frame(idx).  canvas.configure is a Tk call: on a destroyed window it
\* raises TclError, after current_frame_idx has been assigned.
load_frame(s, idx) ==
  IF idx < 0 \/ idx >= Len(s.project.frames)
  THEN [close(s) EXCEPT !.oor = TRUE]
  ELSE IF s.destroyed
  THEN [s EXCEPT !.current_frame_idx = idx, !.raised = TRUE]
  ELSE LET objs == FrameAt(s.project, idx).objects
           ents == [i \in 1..Len(objs) |-> LoadClone(objs[i])]
       IN  [s EXCEPT !.current_frame_idx = idx,
                     !.entities = ents,
                     !.frame_started = TRUE,
                     !.tick = 0,
                     !.loads = Append(@, [idx |-> idx, before |-> s.entities,
                                          current_frame_idx |-> idx,
                                          entities |-> ents, tick |-> 0]),
                     !.seen = {},
                     !.onceHist = [pos \in DOMAIN s.onceHist |->
                                     IF pos[1] = idx
                                     THEN Append(s.onceHist[pos], "L")
                                     ELSE s.onceHist[pos]]]

aabb_overlap(a, b) ==
  /\ a.x < b.x + b.w
  /\ a.x + a.w > b.x
  /\ a.y < b.y + b.h
  /\ a.y + a.h > b.y

\* the entity at position i of ents is one find_entities(name_or_type) returns
Matches(e, name_or_type) ==
  /\ e.alive
  /\ (e.name = name_or_type \/ e.type = name_or_type)

\* find_entities without the test of "alive"
find_entities_IncludesDead(ents, name_or_type) ==
  SelectSeq([i \in 1..Len(ents) |-> i],
            LAMBDA i : ents[i].name = name_or_type \/ ents[i].type = name_or_type)

\* find_entities returning after the first match
find_entities_FirstOnly(ents, name_or_type) ==
  LET found == SelectSeq([i \in 1..Len(ents) |-> i],
                         LAMBDA i : Matches(ents[i], name_or_type))
  IN  IF found = << >> THEN << >> ELSE << found[1] >>

\* find_entities: the positions of the matching entities, in list order
find_entities(ents, name_or_type) ==
  SelectSeq([i \in 1..Len(ents) |-> i], LAMBDA i : Matches(ents[i], name_or_type))

Range(seq) == { seq[i] : i \in 1..Len(seq) }

compare(a, op, b) ==
  CASE op = "==" -> a = b
    [] op = "!=" -> a # b
    [] op = "<"  -> a < b
    [] op = "<=" -> a <= b
    [] op = ">"  -> a > b
    [] op = ">=" -> a >= b
    [] OTHER -> FALSE

\* ids of entities that are not alive among those a collision check of the
\* given site works on
DeadAmong(ents, idxs, site) ==
  { <<site, ents[i].id>> : i \in { j \in idxs : ~ents[j].alive } }

\* eval_condition, the branch ctype == "Once", with a fired flag never set
EvalOnce_FlagNeverSet(s, f0, g, c) ==
  [s |-> [s EXCEPT !.onceHist[<<f0, g, c>>] = Append(@, "T")], met |-> TRUE]

\* eval_condition, the branch ctype == "Once": cond["_fired"] is the field
\* fired of the condition, absent until the condition has fired
EvalOnce(s, f0, g, c) ==
  LET cond == FrameAt(s.project, f0).events[g].conditions[c]
  IN  IF ~Get(cond, "fired", FALSE)
      THEN [s |-> [s EXCEPT
              !.project.frames[f0 + 1].events[g].conditions[c] =
                 [fired |-> TRUE] @@ cond,
              !.onceHist[<<f0, g, c>>] = Append(@, "T")],
            met |-> TRUE]
      ELSE [s |-> [s EXCEPT !.onceHist[<<f0, g, c>>] = Append(@, "F")],
            met |-> FALSE]

\* the test of the branch ctype == "Every N ms" with <= for <
EveryNMs_Inclusive(t, f, n) == (t * f) % n <= f

\* the test of the branch ctype == "Every N ms":
\* (self.tick * self.frame_ms) % n < self.frame_ms
EveryNMs(t, f, n) == (t * f) % n < f

\* the end of eval_condition raising an exception for a type it does not know
UnknownCondition_Raises(s) == [s |-> [s EXCEPT !.raised = TRUE], met |-> FALSE]

\* the end of eval_condition, reached by every type without a branch:
\* return False
UnknownCondition(s) == [s |-> s, met |-> FALSE]

\* eval_condition for the condition at position c of group g of frame f0:
\* the result before negation and the runtime after the evaluation
eval_condition(s, f0, g, c) ==
  LET cond   == FrameAt(s.project, f0).events[g].conditions[c]
      ctype  == Get(cond, "type", "")
      target == Get(cond, "target", "")
      params == Get(cond, "params", NoParams)
  IN  CASE ctype = "Always" -> [s |-> s, met |-> TRUE]
        [] ctype = "Never" -> [s |-> s, met |-> FALSE]
        [] ctype = "Once" -> EvalOnce(s, f0, g, c)
        [] ctype = "At start of frame" -> [s |-> s, met |-> s.frame_started]
        [] ctype = "Key pressed" ->
             [s |-> s, met |-> Get(params, "key", "") \in keys]
        [] ctype = "Every N ms" ->
             LET n == Get(params, "ms", 1000)
             IN  IF n = 0
                 THEN [s |-> [s EXCEPT !.raised = TRUE], met |-> FALSE]
                 ELSE [s |-> s,
                       met |-> EveryNMs(s.tick, frame_ms(s.project), n)]
        [] ctype = "Collides with" ->
             LET src == find_entities(s.entities, target)
                 tgt == find_entities(s.entities, Get(params, "other", ""))
             IN  [s |-> [s EXCEPT !.dead_checks = @ \cup
                           (IF src # << >> /\ tgt # << >>
                            THEN DeadAmong(s.entities, Range(src) \cup Range(tgt),
                                           "condition")
                            ELSE {})],
                  met |-> \E i \in Range(src) : \E j \in Range(tgt) :
                             /\ s.entities[i].id # s.entities[j].id
                             /\ aabb_overlap(s.entities[i], s.entities[j])]
        [] ctype = "Compare counter" ->
             LET ents == find_entities(s.entities, target)
                 op   == Get(params, "op", "==")
                 val  == Get(params, "value", 0)
             IN  [s |-> s,
                  met |-> \E i \in Range(ents) :
                             compare(Get(s.entities[i], "counter_value", 0), op, val)]
        [] ctype = "Mouse clicked" -> [s |-> s, met |-> 1 \in mouse_buttons]
        [] ctype = "Object out of playfield" ->
             LET frame == FrameAt(s.project, s.current_frame_idx)
                 ents  == find_entities(s.entities, target)
             IN  [s |-> s,
                  met |-> \E i \in Range(ents) :
                             LET e == s.entities[i]
                             IN  \/ e.x + e.w < 0 - FALL_MARGIN
                                 \/ e.x > frame.width + FALL_MARGIN
                                 \/ e.y + e.h < 0 - FALL_MARGIN
                                 \/ e.y > frame.height + FALL_MARGIN]
        [] OTHER -> UnknownCondition(s)

\* apply upd to every entity find_entities(target) returns
ForEachFound(ents, target, upd(_)) ==
  [i \in 1..Len(ents) |->
     IF i \in Range(find_entities(ents, target)) THEN upd(ents[i]) ELSE ents[i]]

\* the branch "Set global value" with the index clamped to the list
SetGlobalValue_Clamped(values, idx, val) ==
  [values EXCEPT ![clamp(idx, 0, Len(values) - 1) + 1] = val]

\* the branch "Set global value":
\* if 0 <= idx < len(self.global_values): self.global_values[idx] = val
SetGlobalValue(values, idx, val) ==
  IF 0 <= idx /\ idx < Len(values) THEN [values EXCEPT ![idx + 1] = val] ELSE values

\* the branch "Add to global value"
AddToGlobalValue(values, idx, val) ==
  IF 0 <= idx /\ idx < Len(values) THEN [values EXCEPT ![idx + 1] = @ + val] ELSE values

\* exec_action: the runtime after the action
exec_action(s, action) ==
  LET atype  == Get(action, "type", "")
      target == Get(action, "target", "")
      params == Get(action, "params", NoParams)
      ents   == s.entities
  IN  CASE atype = "Destroy" ->
             [s EXCEPT !.entities = ForEachFound(ents, target,
                 LAMBDA e : [e EXCEPT !.alive = FALSE])]
        [] atype = "Set position" ->
             [s EXCEPT !.entities = ForEachFound(ents, target,
                 LAMBDA e : [e EXCEPT !.x = Get(params, "x", e.x),
                                      !.y = Get(params, "y", e.y)])]
        [] atype = "Set X" ->
             [s EXCEPT !.entities = ForEachFound(ents, target,
                 LAMBDA e : [e EXCEPT !.x = Get(params, "value", 0)])]
        [] atype = "Set Y" ->
             [s EXCEPT !.entities = ForEachFound(ents, target,
                 LAMBDA e : [e EXCEPT !.y = Get(params, "value", 0)])]
        [] atype = "Set speed" ->
             [s EXCEPT !.entities = ForEachFound(ents, target,
                 LAMBDA e : [e EXCEPT !.speed = Get(params, "value", 0)])]
        [] atype = "Add to counter" ->
             [s EXCEPT !.entities = ForEachFound(ents, target,
                 LAMBDA e : [e EXCEPT !.counter_value =
                                Get(e, "counter_value", 0) + Get(params, "value", 1)])]
        [] atype = "Set counter to" ->
             [s EXCEPT !.entities = ForEachFound(ents, target,
                 LAMBDA e : [e EXCEPT !.counter_value = Get(params, "value", 0)])]
        [] atype = "Add to score" ->
             [s EXCEPT !.score = @ + Get(params, "value", 100)]
        [] atype = "Set score" ->
             [s EXCEPT !.score = Get(params, "value", 0)]
        [] atype = "Subtract life" ->
             [s EXCEPT !.lives = Max(0, @ - 1)]
        [] atype = "Add life" ->
             [s EXCEPT !.lives = @ + 1]
        [] atype = "Go to frame" ->
             load_frame(s, Get(params, "frame", 0))
        [] atype = "Next frame (app)" ->
             load_frame(s, s.current_frame_idx + 1)
        [] atype = "Restart frame" ->
             load_frame(s, s.current_frame_idx)
        [] atype = "End application" ->
             close(s)
        [] atype = "Make invisible" ->
             [s EXCEPT !.entities = ForEachFound(ents, target,
                 LAMBDA e : [e EXCEPT !.visible = FALSE])]
        [] atype = "Make visible" ->
             [s EXCEPT !.entities = ForEachFound(ents, target,
                 LAMBDA e : [e EXCEPT !.visible = TRUE])]
        [] atype = "Flash" ->
             [s EXCEPT !.entities = ForEachFound(ents, target,
                 LAMBDA e : [e EXCEPT !.flash_timer = Get(params, "duration", 30)])]
        [] atype = "Bounce" ->
             [s EXCEPT !.entities = ForEachFound(ents, target,
                 LAMBDA e : [e EXCEPT !.dir_x = 0 - @, !.dx = 0 - @])]
        [] atype = "Set global value" ->
             [s EXCEPT !.global_values =
                SetGlobalValue(@, Get(params, "index", 0), Get(params, "value", 0))]
        [] atype = "Add to global value" ->
             [s EXCEPT !.global_values =
                AddToGlobalValue(@, Get(params, "index", 0), Get(params, "value", 1))]
        [] atype = "Create object" ->
             LET obj_type == Get(params, "obj_type", "Active")
                 new_obj  == make_default_object(s.next_uid, obj_type, "uid_name",
                                 Get(params, "x", 0), Get(params, "y", 0))
             IN  [s EXCEPT !.entities = Append(ents,
                               [ dx |-> 0, dy |-> 0, grounded |-> FALSE,
                                 alive |-> TRUE, flash_timer |-> 0, dir_x |-> 1,
                                 gravity |-> FALSE ] @@ new_obj),
                           !.next_uid = @ + 1]
        [] OTHER -> s

\* process_events, the action loop of group g of frame f0 from action a on.
\* An exception ends the loop.
RECURSIVE RunActions(_, _, _, _)
RunActions(s, f0, g, a) ==
  LET actions == Get(FrameAt(s.project, f0).events[g], "actions", << >>)
  IN  IF s.raised \/ a > Len(actions)
      THEN s
      ELSE RunActions(
             exec_action([s EXCEPT !.evlog = Append(@,
                            [k |-> "act", f |-> f0, g |-> g, i |-> a,
                             val |-> TRUE, first |-> FALSE, own |-> FALSE])],
                         actions[a]),
             f0, g, a + 1)

\* the condition loop without the break after a condition that is not met
RECURSIVE EvalConditions_NoBreak(_, _, _, _)
EvalConditions_NoBreak(s, f0, g, c) ==
  LET conditions == Get(FrameAt(s.project, f0).events[g], "conditions", << >>)
  IN  IF c > Len(conditions)
      THEN [s |-> s, all_conditions_met |-> TRUE]
      ELSE LET r   == eval_condition(s, f0, g, c)
               met == IF Get(conditions[c], "negated", FALSE) THEN ~r.met ELSE r.met
               s1  == [r.s EXCEPT !.evlog = Append(@,
                         [k |-> "eval", f |-> f0, g |-> g, i |-> c,
                          val |-> met, first |-> FALSE, own |-> FALSE])]
           IN  IF r.s.raised
               THEN [s |-> r.s, all_conditions_met |-> FALSE]
               ELSE LET rest == EvalConditions_NoBreak(s1, f0, g, c + 1)
                    IN  [s |-> rest.s,
                         all_conditions_met |-> met /\ rest.all_conditions_met]

\* process_events, the condition loop of group g of frame f0 from condition c
\* on: the runtime after the loop and all_conditions_met
RECURSIVE EvalConditions(_, _, _, _)
EvalConditions(s, f0, g, c) ==
  LET conditions == Get(FrameAt(s.project, f0).events[g], "conditions", << >>)
  IN  IF c > Len(conditions)
      THEN [s |-> s, all_conditions_met |-> TRUE]
      ELSE LET r   == eval_condition(s, f0, g, c)
               met == IF Get(conditions[c], "negated", FALSE) THEN ~r.met ELSE r.met
               s1  == [r.s EXCEPT !.evlog = Append(@,
                         [k |-> "eval", f |-> f0, g |-> g, i |-> c,
                          val |-> met, first |-> FALSE, own |-> FALSE])]
           IN  IF r.s.raised
               THEN [s |-> r.s, all_conditions_met |-> FALSE]
               ELSE IF ~met
               THEN [s |-> s1, all_conditions_met |-> FALSE]
               ELSE EvalConditions(s1, f0, g, c + 1)

\* the body of the loop of process_events, without the test that the
\* condition list is not empty
ProcessGroup_NoEmptyTest(s, f0, g) ==
  LET group == FrameAt(s.project, f0).events[g]
  IN  IF ~Get(group, "active", TRUE)
      THEN s
      ELSE LET r == EvalConditions(s, f0, g, 1)
           IN  IF r.s.raised
               THEN r.s
               ELSE IF r.all_conditions_met
               THEN RunActions(r.s, f0, g, 1)
               ELSE r.s

\* the body of the loop of process_events, without the test of "active"
ProcessGroup_IgnoresActive(s, f0, g) ==
  LET own == (s.current_frame_idx = f0)
      s0  == [s EXCEPT
                !.evlog = Append(@,
                   [k |-> "group", f |-> f0, g |-> g, i |-> 0,
                    val |-> s.frame_started,
                    first |-> (g \notin s.seen), own |-> own]),
                !.seen = IF own THEN @ \cup {g} ELSE @]
      r   == EvalConditions(s0, f0, g, 1)
  IN  IF r.s.raised
      THEN r.s
      ELSE IF r.all_conditions_met
              /\ Get(r.s.project.frames[f0 + 1].events[g],
                     "conditions", << >>) # << >>
      THEN RunActions(r.s, f0, g, 1)
      ELSE r.s

\* the body of the loop of process_events for group g of frame f0
ProcessGroup(s, f0, g) ==
  LET group == FrameAt(s.project, f0).events[g]
  IN  IF ~Get(group, "active", TRUE)
      THEN s
      ELSE LET own == (s.current_frame_idx = f0)
               s0  == [s EXCEPT
                         !.evlog = Append(@,
                            [k |-> "group", f |-> f0, g |-> g, i |-> 0,
                             val |-> s.frame_started,
                             first |-> (g \notin s.seen), own |-> own]),
                         !.seen = IF own THEN @ \cup {g} ELSE @]
               r   == EvalConditions(s0, f0, g, 1)
           IN  IF r.s.raised
               THEN r.s
               ELSE IF r.all_conditions_met
                       /\ Get(r.s.project.frames[f0 + 1].events[g],
                              "conditions", << >>) # << >>
               THEN RunActions(r.s, f0, g, 1)
               ELSE r.s

\* process_events(frame) for the frame with index f0, from group g on
RECURSIVE process_events(_, _, _)
process_events(s, f0, g) ==
  IF s.raised \/ g > Len(Get(FrameAt(s.project, f0), "events", << >>))
  THEN s
  ELSE process_events(ProcessGroup(s, f0, g), f0, g + 1)

\* ------------------------------------------------------------------------
\* update_physics
\* ------------------------------------------------------------------------

\* e["dx"] *= 0.7 ; if abs(e["dx"]) < 0.5: e["dx"] = 0
Friction(dx) ==
  LET d == IF dx >= 0 THEN (dx * 7) \div 10 ELSE 0 - (((0 - dx) * 7) \div 10)
  IN  IF Abs(d) < FRICTION_STOP THEN 0 ELSE d

\* "Resolve X collisions": the loop over solids from position k on
RECURSIVE ResolveX(_, _, _, _)
ResolveX(e, ents, solids, k) ==
  IF k > Len(solids)
  THEN e
  ELSE LET sol == ents[solids[k]]
       IN  IF sol.id = e.id
           THEN ResolveX(e, ents, solids, k + 1)
           ELSE IF aabb_overlap(e, sol)
           THEN ResolveX([e EXCEPT !.x = IF e.dx > 0 THEN sol.x - e.w
                                         ELSE IF e.dx < 0 THEN sol.x + sol.w
                                         ELSE @,
                                   !.dx = 0],
                         ents, solids, k + 1)
           ELSE ResolveX(e, ents, solids, k + 1)

\* "Resolve Y collisions" from position k on, landing without moving the
\* entity onto the solid
RECURSIVE ResolveY_NoSnap(_, _, _, _)
ResolveY_NoSnap(e, ents, solids, k) ==
  IF k > Len(solids)
  THEN e
  ELSE LET sol == ents[solids[k]]
       IN  IF sol.id = e.id
           THEN ResolveY_NoSnap(e, ents, solids, k + 1)
           ELSE IF aabb_overlap(e, sol)
           THEN ResolveY_NoSnap(IF e.dy > 0
                                THEN [e EXCEPT !.dy = 0, !.grounded = TRUE]
                                ELSE IF e.dy < 0
                                THEN [e EXCEPT !.y = sol.y + sol.h, !.dy = 0]
                                ELSE e,
                                ents, solids, k + 1)
           ELSE ResolveY_NoSnap(e, ents, solids, k + 1)

\* "Resolve Y collisions": the loop over solids from position k on
RECURSIVE ResolveY(_, _, _, _)
ResolveY(e, ents, solids, k) ==
  IF k > Len(solids)
  THEN e
  ELSE LET sol == ents[solids[k]]
       IN  IF sol.id = e.id
           THEN ResolveY(e, ents, solids, k + 1)
           ELSE IF aabb_overlap(e, sol)
           THEN ResolveY(IF e.dy > 0
                         THEN [e EXCEPT !.y = sol.y - e.h, !.dy = 0,
                                        !.grounded = TRUE]
                         ELSE IF e.dy < 0
                         THEN [e EXCEPT !.y = sol.y + sol.h, !.dy = 0]
                         ELSE e,
                         ents, solids, k + 1)
           ELSE ResolveY(e, ents, solids, k + 1)

\* the branch movement == "Player" up to "Gravity", with a jump that does
\* not ask for grounded
PlayerVelocity_JumpsInAir(e0) ==
  LET spd == Get(e0, "speed", Px(5))
      e1  == [e0 EXCEPT !.dx = IF "Left" \in keys THEN 0 - spd
                               ELSE IF "Right" \in keys THEN spd
                               ELSE Friction(@)]
      e2  == IF "Up" \in keys \/ "space" \in keys
             THEN [e1 EXCEPT !.dy = JUMP_IMPULSE, !.grounded = FALSE]
             ELSE e1
  IN  [e2 EXCEPT !.dy = IF @ + GRAVITY > MAX_FALL THEN MAX_FALL ELSE @ + GRAVITY]

\* the branch movement == "Player" up to "Gravity", with no cap on dy
PlayerVelocity_NoCap(e0) ==
  LET spd == Get(e0, "speed", Px(5))
      e1  == [e0 EXCEPT !.dx = IF "Left" \in keys THEN 0 - spd
                               ELSE IF "Right" \in keys THEN spd
                               ELSE Friction(@)]
      e2  == IF ("Up" \in keys \/ "space" \in keys) /\ e1.grounded
             THEN [e1 EXCEPT !.dy = JUMP_IMPULSE, !.grounded = FALSE]
             ELSE e1
  IN  [e2 EXCEPT !.dy = @ + GRAVITY]

\* the branch movement == "Player" up to "Gravity": dx from the keys or
\* friction, the jump, gravity with its cap
PlayerVelocity(e0) ==
  LET spd == Get(e0, "speed", Px(5))
      e1  == [e0 EXCEPT !.dx = IF "Left" \in keys THEN 0 - spd
                               ELSE IF "Right" \in keys THEN spd
                               ELSE Friction(@)]
      e2  == IF ("Up" \in keys \/ "space" \in keys) /\ e1.grounded
             THEN [e1 EXCEPT !.dy = JUMP_IMPULSE, !.grounded = FALSE]
             ELSE e1
  IN  [e2 EXCEPT !.dy = IF @ + GRAVITY > MAX_FALL THEN MAX_FALL ELSE @ + GRAVITY]

\* the branch movement == "Player" up to "Move Y": the X step, then
\* y += dy and grounded = False
PlayerMovedY(e0, ents, solids) ==
  LET e3 == PlayerVelocity(e0)
      e4 == ResolveX([e3 EXCEPT !.x = @ + e3.dx], ents, solids, 1)
  IN  [e4 EXCEPT !.y = @ + e4.dy, !.grounded = FALSE]

\* the branch movement == "Player"
PlayerMovement(e0, ents, solids, fw, fh) ==
  LET e5  == ResolveY(PlayerMovedY(e0, ents, solids), ents, solids, 1)
      e6  == IF e5.y > fh + FALL_MARGIN THEN [e5 EXCEPT !.y = 0, !.dy = 0] ELSE e5
  IN  [e6 EXCEPT !.x = clamp(@, 0 - e6.w, fw)]

\* "Bounce off solids": the loop over solids from position k on
RECURSIVE BounceOffSolids(_, _, _, _, _)
BounceOffSolids(e, spd, ents, solids, k) ==
  IF k > Len(solids)
  THEN e
  ELSE LET sol == ents[solids[k]]
       IN  IF sol.id = e.id
           THEN BounceOffSolids(e, spd, ents, solids, k + 1)
           ELSE IF aabb_overlap(e, sol)
           THEN BounceOffSolids(
                  [e EXCEPT !.dir_x = 0 - e.dir_x,
                            !.x = @ + spd * (0 - e.dir_x) * 2],
                  spd, ents, solids, k + 1)
           ELSE BounceOffSolids(e, spd, ents, solids, k + 1)

\* the branch movement == "Bouncing" with the edge test made before the move
BouncingMovement_EdgeTestFirst(e0, ents, solids, fw) ==
  LET spd == Get(e0, "speed", Px(2))
      e1  == IF e0.x <= 0 \/ e0.x + e0.w >= fw
             THEN [e0 EXCEPT !.dir_x = 0 - @]
             ELSE e0
      e2  == [e1 EXCEPT !.x = @ + spd * e0.dir_x]
  IN  BounceOffSolids(e2, spd, ents, solids, 1)

\* the branch movement == "Bouncing"
BouncingMovement(e0, ents, solids, fw) ==
  LET spd == Get(e0, "speed", Px(2))
      e1  == [e0 EXCEPT !.x = @ + spd * e0.dir_x]
      e2  == IF e1.x <= 0 \/ e1.x + e1.w >= fw
             THEN [e1 EXCEPT !.dir_x = 0 - @]
             ELSE e1
  IN  BounceOffSolids(e2, spd, ents, solids, 1)

\* the branch movement == "8Dir"
EightDirMovement(e0) ==
  LET spd == Get(e0, "speed", Px(4))
      dx  == (IF "Right" \in keys THEN spd ELSE 0) - (IF "Left" \in keys THEN spd ELSE 0)
      dy  == (IF "Down" \in keys THEN spd ELSE 0) - (IF "Up" \in keys THEN spd ELSE 0)
  IN  [e0 EXCEPT !.x = @ + dx, !.y = @ + dy]

\* the body of the loop of update_physics with a branch that moves the
\* entities of movement "Platform" by their speed
PhysicsStep_MovesPlatforms(e0, ents, solids, fw, fh) ==
  LET movement == Get(e0, "movement", "Static")
      e1 == CASE movement = "Player"   -> PlayerMovement(e0, ents, solids, fw, fh)
              [] movement = "Bouncing" -> BouncingMovement(e0, ents, solids, fw)
              [] movement = "8Dir"     -> EightDirMovement(e0)
              [] movement = "Platform" -> [e0 EXCEPT !.x = @ + Get(e0, "speed", 0)]
              [] OTHER -> e0
  IN  IF Get(e1, "flash_timer", 0) > 0
      THEN [e1 EXCEPT !.flash_timer = @ - 1]
      ELSE e1

\* the body of the loop of update_physics for one alive entity
PhysicsStep(e0, ents, solids, fw, fh) ==
  LET movement == Get(e0, "movement", "Static")
      e1 == CASE movement = "Player"   -> PlayerMovement(e0, ents, solids, fw, fh)
              [] movement = "Bouncing" -> BouncingMovement(e0, ents, solids, fw)
              [] movement = "8Dir"     -> EightDirMovement(e0)
              [] OTHER -> e0
  IN  IF Get(e1, "flash_timer", 0) > 0
      THEN [e1 EXCEPT !.flash_timer = @ - 1]
      ELSE e1

\* the loop of update_physics over self.entities from position i on; the
\* solids are references, so a solid that has already moved is seen moved
RECURSIVE PhysicsLoop(_, _, _, _, _)
PhysicsLoop(ents, solids, fw, fh, i) ==
  IF i > Len(ents)
  THEN ents
  ELSE IF ~ents[i].alive
  THEN PhysicsLoop(ents, solids, fw, fh, i + 1)
  ELSE PhysicsLoop([ents EXCEPT ![i] = PhysicsStep(ents[i], ents, solids, fw, fh)],
                   solids, fw, fh, i + 1)

update_physics(s) ==
  LET frame_data == FrameAt(s.project, s.current_frame_idx)
      solids == SelectSeq([i \in 1..Len(s.entities) |-> i],
                          LAMBDA i : s.entities[i].alive /\ s.entities[i].solid)
  IN  [s EXCEPT !.entities = PhysicsLoop(s.entities, solids, frame_data.width,
                                         frame_data.height, 1),
                !.dead_checks = @ \cup DeadAmong(s.entities, Range(solids), "physics")]

\* ------------------------------------------------------------------------
\* game_loop: pruning, the built-in consequences, render
\* ------------------------------------------------------------------------

\* self.entities = [e for e in self.entities if e.get("alive", True)]
RemoveDeadEntities(ents) == SelectSeq(ents, LAMBDA e : Get(e, "alive", TRUE))

\* [e for e in self.entities if e.get("type") == obj_type and e.get("alive")]
AliveOfType(ents, obj_type) ==
  SelectSeq([i \in 1..Len(ents) |-> i],
            LAMBDA i : ents[i].type = obj_type /\ ents[i].alive)

\* for p in ps: for o in os, as the sequence of the pairs <<p, o>>
Pairs(ps, os) ==
  [k \in 1..(Len(ps) * Len(os)) |->
     << ps[((k - 1) \div Len(os)) + 1], os[((k - 1) % Len(os)) + 1] >>]

\* the player-coin loops from pair k on, marking every collected coin dead
\* whatever its destroy_on_collect
RECURSIVE CoinLoop_AlwaysDestroys(_, _, _)
CoinLoop_AlwaysDestroys(s, pairs, k) ==
  IF k > Len(pairs)
  THEN s
  ELSE LET p == s.entities[pairs[k][1]]
           c == s.entities[pairs[k][2]]
       IN  IF aabb_overlap(p, c)
           THEN CoinLoop_AlwaysDestroys(
                  [s EXCEPT !.score = @ + Get(c, "score_value", 100),
                            !.entities[pairs[k][2]].alive = FALSE,
                            !.killed = @ \cup {c.id}],
                  pairs, k + 1)
           ELSE CoinLoop_AlwaysDestroys(s, pairs, k + 1)

\* the player-coin loops from pair k on
RECURSIVE CoinLoop(_, _, _)
CoinLoop(s, pairs, k) ==
  IF k > Len(pairs)
  THEN s
  ELSE LET p == s.entities[pairs[k][1]]
           c == s.entities[pairs[k][2]]
           s0 == [s EXCEPT !.dead_checks = @ \cup
                    DeadAmong(s.entities, {pairs[k][1], pairs[k][2]}, "coin")]
       IN  IF aabb_overlap(p, c)
           THEN CoinLoop(
                  [s0 EXCEPT !.score = @ + Get(c, "score_value", 100),
                             !.entities[pairs[k][2]].alive =
                                IF Get(c, "destroy_on_collect", FALSE) THEN FALSE ELSE @,
                             !.killed = IF Get(c, "destroy_on_collect", FALSE)
                                        THEN @ \cup {c.id} ELSE @],
                  pairs, k + 1)
           ELSE CoinLoop(s0, pairs, k + 1)

\* the player-enemy loops from pair k on, closing only when lives is below 0
RECURSIVE EnemyLoop_ClosesBelowZero(_, _, _)
EnemyLoop_ClosesBelowZero(s, pairs, k) ==
  IF k > Len(pairs)
  THEN s
  ELSE LET p  == s.entities[pairs[k][1]]
           en == s.entities[pairs[k][2]]
       IN  IF aabb_overlap(p, en)
           THEN IF Get(p, "dy", 0) > 0 /\ p.y + p.h - STOMP_TOLERANCE < en.y
                THEN EnemyLoop_ClosesBelowZero(
                       [s EXCEPT !.entities[pairs[k][2]].alive = FALSE,
                                 !.entities[pairs[k][1]].dy = STOMP_BOUNCE,
                                 !.score = @ + STOMP_SCORE,
                                 !.killed = @ \cup {en.id}],
                       pairs, k + 1)
                ELSE LET s1 == [s EXCEPT !.lives = @ - 1,
                                         !.entities[pairs[k][1]].x = RESPAWN_X,
                                         !.entities[pairs[k][1]].y = RESPAWN_Y,
                                         !.entities[pairs[k][1]].dy = 0]
                     IN  EnemyLoop_ClosesBelowZero(
                           IF s1.lives < 0 THEN close(s1) ELSE s1, pairs, k + 1)
           ELSE EnemyLoop_ClosesBelowZero(s, pairs, k + 1)

\* the player-enemy loops from pair k on
RECURSIVE EnemyLoop(_, _, _)
EnemyLoop(s, pairs, k) ==
  IF k > Len(pairs)
  THEN s
  ELSE LET p  == s.entities[pairs[k][1]]
           en == s.entities[pairs[k][2]]
           s0 == [s EXCEPT !.dead_checks = @ \cup
                    DeadAmong(s.entities, {pairs[k][1], pairs[k][2]}, "enemy")]
       IN  IF aabb_overlap(p, en)
           THEN IF Get(p, "dy", 0) > 0 /\ p.y + p.h - STOMP_TOLERANCE < en.y
                THEN EnemyLoop(
                       [s0 EXCEPT !.entities[pairs[k][2]].alive = FALSE,
                                  !.entities[pairs[k][1]].dy = STOMP_BOUNCE,
                                  !.score = @ + STOMP_SCORE,
                                  !.killed = @ \cup {en.id}],
                       pairs, k + 1)
                ELSE LET s1 == [s0 EXCEPT !.lives = @ - 1,
                                          !.entities[pairs[k][1]].x = RESPAWN_X,
                                          !.entities[pairs[k][1]].y = RESPAWN_Y,
                                          !.entities[pairs[k][1]].dy = 0]
                     IN  EnemyLoop(IF s1.lives <= 0 THEN close(s1) ELSE s1,
                                   pairs, k + 1)
           ELSE EnemyLoop(s0, pairs, k + 1)

\* "Check player-coin collisions" and "Check player-enemy collisions"
Consequences(s) ==
  LET players == AliveOfType(s.entities, "Player")
      coins   == AliveOfType(s.entities, "Coin")
      s1      == CoinLoop(s, Pairs(players, coins), 1)
      enemies == AliveOfType(s1.entities, "Enemy")
  IN  EnemyLoop(s1, Pairs(players, enemies), 1)

\* visible_entities.sort(key=layer): a stable sort, by insertion
RECURSIVE SortByLayer(_, _)
SortByLayer(ents, idxs) ==
  IF idxs = << >>
  THEN << >>
  ELSE LET n    == Len(idxs)
           rest == SortByLayer(ents, SubSeq(idxs, 1, n - 1))
           last == idxs[n]
           keep == SelectSeq(rest, LAMBDA i :
                     Get(ents[i], "layer", 0) <= Get(ents[last], "layer", 0))
       IN  keep \o << last >> \o SubSeq(rest, Len(keep) + 1, Len(rest))

\* render leaving out a flashing entity on every tick
RenderList_HidesWhileFlashing(ents, t) ==
  LET visible_entities == SortByLayer(ents,
                            SelectSeq([i \in 1..Len(ents) |-> i],
                                      LAMBDA i : ents[i].alive))
      shown == SelectSeq(visible_entities, LAMBDA i :
                 /\ Get(ents[i], "visible", TRUE)
                 /\ ~(Get(ents[i], "flash_timer", 0) > 0))
  IN  [k \in 1..Len(shown) |-> ents[shown[k]].id]

\* render: the ids of the entities drawn, in drawing order
RenderList(ents, t) ==
  LET visible_entities == SortByLayer(ents,
                            SelectSeq([i \in 1..Len(ents) |-> i],
                                      LAMBDA i : ents[i].alive))
      shown == SelectSeq(visible_entities, LAMBDA i :
                 /\ Get(ents[i], "visible", TRUE)
                 /\ ~(Get(ents[i], "flash_timer", 0) > 0 /\ t % 4 < 2))
  IN  [k \in 1..Len(shown) |-> ents[shown[k]].id]

\* ------------------------------------------------------------------------
\* Projects the sessions are started with
\* ------------------------------------------------------------------------

\* keysyms the player uses besides Escape
Keys == {"Right", "space"}

Player(id, x, y) == make_default_object(id, "Player", "Hero", Px(x), Px(y))

Coin(id, x, y) == make_default_object(id, "Coin", "Gem", Px(x), Px(y))

Enemy(id, x, y) == make_default_object(id, "Enemy", "Bat", Px(x), Px(y))

Platform(id, x, y) == make_default_object(id, "Platform", "Floor", Px(x), Px(y))

\* a coin whose destroy_on_collect is false, as a project file can hold it
CoinKept(id, x, y) == [Coin(id, x, y) EXCEPT !.destroy_on_collect = FALSE]

\* object lists of a scene: a player falling onto a coin and an enemy; a
\* player beside an enemy; two players on the same coin and enemy; a player
\* standing on a platform next to a coin; a player falling onto a coin that
\* is kept and an enemy; a player standing at the right end of a platform;
\* a player left of two platforms that overlap each other
Layouts ==
  { << Player(1, 0, 0), Coin(2, 10, 10), Enemy(3, 20, 30) >>,
    << Player(1, 0, 0), Enemy(3, 10, 5) >>,
    << Player(1, 0, 0), Player(4, 8, 0), Coin(2, 10, 10), Enemy(3, 20, 30) >>,
    << Player(1, 0, 68), Platform(5, 0, 100), Coin(2, 40, 70) >>,
    << Player(1, 0, 0), CoinKept(2, 10, 10), Enemy(3, 20, 30) >>,
    << Player(1, 90, 68), Platform(5, 0, 100) >>,
    << Player(1, 0, 0), Platform(6, 36, 0), Platform(5, 34, 0) >> }

Always == make_condition("Always", "", NoParams)

Never == make_condition("Never", "", NoParams)

Once == make_condition("Once", "", NoParams)

AtStart == make_condition("At start of frame", "", NoParams)

KeyPressed(k) == make_condition("Key pressed", "", [key |-> k])

Collides(a, b) == make_condition("Collides with", a, [other |-> b])

AddToScore(v) == make_action("Add to score", "", [value |-> v])

GoToFrame(idx) == make_action("Go to frame", "", [frame |-> idx])

Simple(atype) == make_action(atype, "", NoParams)

Destroy(target) == make_action("Destroy", target, NoParams)

CompareCounter(target, op, v) ==
  make_condition("Compare counter", target, [op |-> op, value |-> v])

AddToCounter(target, v) == make_action("Add to counter", target, [value |-> v])

CreateObject(obj_type, x, y) ==
  make_action("Create object", "", [obj_type |-> obj_type, x |-> Px(x), y |-> Px(y)])

\* toggle_active on a group that was active
Inactive(group) == [group EXCEPT !.active = FALSE]

\* a group with a comment text: add_comment makes it with no conditions and
\* no actions, a project file read by load_project can hold any
CommentGroup(text, conditions, actions) ==
  [make_event_group(conditions, actions) EXCEPT !.comment = text]

\* rule groups a scene is built from
GroupPool ==
  { make_event_group(<< >>, << AddToScore(1) >>),
    make_event_group(<< Once >>, << AddToScore(10) >>),
    make_event_group(<< AtStart >>, << AddToScore(5) >>),
    make_event_group(<< Always >>, << Simple("Restart frame") >>),
    make_event_group(<< KeyPressed("Right") >>, << GoToFrame(1) >>),
    make_event_group(<< Negated(Never), Once >>, << Simple("Next frame (app)") >>),
    make_event_group(<< KeyPressed("space") >>, << GoToFrame(2), AddToScore(3) >>),
    make_event_group(<< Always >>, << Simple("Subtract life") >>),
    make_event_group(<< KeyPressed("space") >>,
                     << Simple("End application"), Simple("Restart frame") >>),
    make_event_group(<< Collides("Player", "Coin") >>, << Destroy("Gem") >>),
    make_event_group(<< Always >>, << CreateObject("Active", 5, 5) >>),
    Inactive(make_event_group(<< Once >>, << AddToScore(10) >>)),
    make_event_group(<< KeyPressed("Right"), Once >>, << AddToScore(2) >>),
    CommentGroup("note", << >>, << >>),
    CommentGroup("note", << Always >>, << AddToScore(7) >>),
    make_event_group(<< Always >>, << AddToCounter("Hero", 1) >>),
    make_event_group(<< CompareCounter("Hero", "==", 1) >>, << AddToScore(4) >>),
    make_event_group(<< Always >>, << Destroy("Active") >>) }

\* the rule groups of the second scene
SecondSceneEvents ==
  << make_event_group(<< AtStart >>, << AddToScore(5) >>),
     make_event_group(<< Once >>, << AddToScore(10) >>),
     make_event_group(<< KeyPressed("Right") >>, << GoToFrame(0) >>) >>

\* rule groups of the projects that vary the objects
LayoutEvents ==
  << make_event_group(<< Collides("Hero", "Coin") >>, << AddToScore(1) >>),
     make_event_group(<< KeyPressed("space") >>, << Destroy("Coin") >>) >>

make_default_project(lives0, objects, events) ==
  [ fps |-> 60, lives |-> lives0,
    global_values |-> [i \in 1..NUM_GLOBALS |-> 0],
    frames |-> << make_default_frame(Px(800), Px(600), objects, events),
                  make_default_frame(Px(800), Px(600),
                                     << Player(1, 0, 0), Coin(2, 100, 100) >>,
                                     SecondSceneEvents) >> ]

Projects ==
  { make_default_project(2, << Player(1, 0, 0), Coin(2, 10, 10) >>, << g1, g2 >>) :
      g1 \in GroupPool, g2 \in GroupPool }
  \cup
  { make_default_project(l, objs, LayoutEvents) : l \in {1, 2}, objs \in Layouts }

\* ------------------------------------------------------------------------
\* Initial state: GameRuntime.__init__ up to the call of game_loop
\* ------------------------------------------------------------------------

GameRuntime(proj, start_frame) ==
    LET objs == FrameAt(proj, start_frame).objects
    IN  /\ project = proj
        /\ editor_project = proj
        /\ loads = << >>
        /\ current_frame_idx = start_frame
        /\ running = TRUE
        /\ paused = FALSE
        /\ tick = 0
        /\ score = 0
        /\ lives = Get(proj, "lives", 3)
        /\ global_values = proj.global_values
        /\ keys = {}
        /\ mouse_buttons = {}
        /\ UndoManagerInit(MAX_HISTORY)
        /\ selected_object = << >>
        /\ clipboard = << >>
        /\ entities = [i \in 1..Len(objs) |-> LoadClone(objs[i])]
        /\ frame_started = TRUE
        /\ next_uid = 1000
        /\ destroyed = FALSE
        /\ drawn = << >>
        /\ pc = "call"
        /\ ticks_run = 0
        /\ phases = << >>
        /\ evlog = << >>
        /\ seen = {}
        /\ onceHist = [pos \in OncePositions(proj) |-> << >>]
        /\ oor = FALSE
        /\ killed = {}
        /\ dead_checks = {}

Init == \E proj \in Projects, start_frame \in {0, 1} : GameRuntime(proj, start_frame)

\* ------------------------------------------------------------------------
\* Actions
\* ------------------------------------------------------------------------

\* self.project = copy.deepcopy(project), without the copy: self.project is
\* the editor's object
EditorProjectAfter_Aliased(editor, runtime_project) == runtime_project

\* self.project = copy.deepcopy(project): what the editor's project object
\* holds once the runtime has written runtime_project to self.project
EditorProjectAfter(editor, runtime_project) == editor

\* the fields of the runtime record become the next state
Install(s) ==
  /\ project' = s.project
  /\ current_frame_idx' = s.current_frame_idx
  /\ running' = s.running
  /\ tick' = s.tick
  /\ score' = s.score
  /\ lives' = s.lives
  /\ global_values' = s.global_values
  /\ entities' = s.entities
  /\ frame_started' = s.frame_started
  /\ next_uid' = s.next_uid
  /\ destroyed' = s.destroyed
  /\ evlog' = s.evlog
  /\ seen' = s.seen
  /\ onceHist' = s.onceHist
  /\ oor' = s.oor
  /\ killed' = s.killed
  /\ dead_checks' = s.dead_checks
  /\ loads' = s.loads
  /\ editor_project' = EditorProjectAfter(editor_project, s.project)

\* game_loop without the test of self.running
GameLoop_NoRunningTest ==
  /\ pc \in {"call", "wait"}
  /\ ticks_run < MaxTicks
  /\ pc' = "events"
  /\ ticks_run' = ticks_run + 1
  /\ phases' = << >>
  /\ evlog' = << >>
  /\ oor' = FALSE
  /\ killed' = {}
  /\ dead_checks' = {}
  /\ loads' = << >>
  /\ UNCHANGED << project, editor_project, current_frame_idx,
                  running, paused, tick, score, lives,
                  global_values, keys, mouse_buttons, undo_stack, redo_stack, max_history, undo_calls, selected_object, clipboard, entities, frame_started, next_uid,
                  destroyed, drawn, seen, onceHist >>

\* game_loop without the test of self.paused
GameLoop_IgnoresPaused ==
  /\ pc \in {"call", "wait"}
  /\ IF ~running
     THEN /\ pc' = "done"
          /\ UNCHANGED << ticks_run, phases, evlog, oor, killed, dead_checks, loads >>
     ELSE /\ ticks_run < MaxTicks
          /\ pc' = "events"
          /\ ticks_run' = ticks_run + 1
          /\ phases' = << >>
          /\ evlog' = << >>
          /\ oor' = FALSE
          /\ killed' = {}
          /\ dead_checks' = {}
          /\ loads' = << >>
  /\ UNCHANGED << project, editor_project, current_frame_idx,
                  running, paused, tick, score, lives,
                  global_values, keys, mouse_buttons, undo_stack, redo_stack, max_history, undo_calls, selected_object, clipboard, entities, frame_started, next_uid,
                  destroyed, drawn, seen, onceHist >>

\* game_loop is entered: from __init__ or when the timer set by after() fires.
\* A paused invocation completes no phase and sets the timer again.
GameLoop ==
  /\ pc \in {"call", "wait"}
  /\ IF ~running
     THEN /\ pc' = "done"
          /\ UNCHANGED << ticks_run, phases, evlog, oor, killed, dead_checks, loads >>
     ELSE IF paused
     THEN /\ pc' = "wait"
          /\ phases' = << >>
          /\ UNCHANGED << ticks_run, evlog, oor, killed, dead_checks, loads >>
     ELSE /\ ticks_run < MaxTicks
          /\ pc' = "events"
          /\ ticks_run' = ticks_run + 1
          /\ phases' = << >>
          /\ evlog' = << >>
          /\ oor' = FALSE
          /\ killed' = {}
          /\ dead_checks' = {}
          /\ loads' = << >>
  /\ UNCHANGED << project, editor_project, current_frame_idx,
                  running, paused, tick, score, lives,
                  global_values, keys, mouse_buttons, undo_stack, redo_stack, max_history, undo_calls, selected_object, clipboard, entities, frame_started, next_uid,
                  destroyed, drawn, seen, onceHist >>

\* self.process_events(frame_data)
ProcessEvents ==
  /\ pc = "events"
  /\ LET s == process_events(Self, current_frame_idx, 1)
     IN  /\ Install(s)
         /\ pc' = IF s.raised THEN "error" ELSE "physics"
         /\ phases' = IF s.raised THEN phases ELSE Append(phases, "rules")
  /\ UNCHANGED << paused, keys, mouse_buttons, undo_stack, redo_stack, max_history, undo_calls, selected_object, clipboard, drawn, ticks_run >>

\* self.update_physics()
UpdatePhysics ==
  /\ pc = "physics"
  /\ Install(update_physics(Self))
  /\ pc' = "prune"
  /\ phases' = Append(phases, "physics")
  /\ UNCHANGED << paused, keys, mouse_buttons, undo_stack, redo_stack, max_history, undo_calls, selected_object, clipboard, drawn, ticks_run >>

\* "Remove dead entities"
RemoveDead ==
  /\ pc = "prune"
  /\ entities' = RemoveDeadEntities(entities)
  /\ pc' = "conseq"
  /\ phases' = Append(phases, "prune")
  /\ UNCHANGED << project, editor_project, loads, current_frame_idx,
                  running, paused, tick, score, lives,
                  global_values, keys, mouse_buttons, undo_stack, redo_stack, max_history, undo_calls, selected_object, clipboard, frame_started, next_uid, destroyed, drawn,
                  ticks_run, evlog, seen, onceHist, oor, killed, dead_checks >>

\* the collision checks run before the dead entities are removed
CheckCollisions_BeforePruning ==
  /\ pc = "conseq"
  /\ LET s == Consequences(Self)
     IN  Install([s EXCEPT !.entities = RemoveDeadEntities(@)])
  /\ pc' = "render"
  /\ phases' = Append(phases, "consequences")
  /\ UNCHANGED << paused, keys, mouse_buttons, undo_stack, redo_stack, max_history, undo_calls, selected_object, clipboard, drawn, ticks_run >>

\* the player-coin and player-enemy checks
CheckCollisions ==
  /\ pc = "conseq"
  /\ Install(Consequences(Self))
  /\ pc' = "render"
  /\ phases' = Append(phases, "consequences")
  /\ UNCHANGED << paused, keys, mouse_buttons, undo_stack, redo_stack, max_history, undo_calls, selected_object, clipboard, drawn, ticks_run >>

\* self.render(): canvas.delete("all") raises TclError on a destroyed canvas
Render ==
  /\ pc = "render"
  /\ IF destroyed
     THEN /\ pc' = "error"
          /\ UNCHANGED << drawn, phases >>
     ELSE /\ drawn' = RenderList(entities, tick)
          /\ pc' = "end"
          /\ phases' = Append(phases, "render")
  /\ UNCHANGED << project, editor_project, loads, current_frame_idx,
                  running, paused, tick, score, lives,
                  global_values, keys, mouse_buttons, undo_stack, redo_stack, max_history, undo_calls, selected_object, clipboard, entities, frame_started, next_uid,
                  destroyed, ticks_run, evlog, seen, onceHist, oor, killed,
                  dead_checks >>

\* the end of a tick: frame_started, tick, self.after(frame_ms, game_loop)
EndTick ==
  /\ pc = "end"
  /\ frame_started' = FALSE
  /\ tick' = tick + 1
  /\ pc' = "wait"
  /\ UNCHANGED << project, editor_project, loads, current_frame_idx,
                  running, paused, score, lives,
                  global_values, keys, mouse_buttons, undo_stack, redo_stack, max_history, undo_calls, selected_object, clipboard, entities, next_uid, destroyed, drawn,
                  ticks_run, phases, evlog, seen, onceHist, oor, killed,
                  dead_checks >>

\* close() called from the event loop: Escape or WM_DELETE_WINDOW
Close ==
  /\ pc = "wait"
  /\ ~destroyed
  /\ running' = FALSE
  /\ destroyed' = TRUE
  /\ UNCHANGED << project, editor_project, loads, current_frame_idx,
                  paused, tick, score, lives,
                  global_values, keys, mouse_buttons, undo_stack, redo_stack, max_history, undo_calls, selected_object, clipboard, entities, frame_started, next_uid, drawn,
                  pc, ticks_run, phases, evlog, seen, onceHist, oor, killed,
                  dead_checks >>

\* on_key_down for a key other than Escape (Escape is Close).  The edge sets
\* keys_just_pressed and keys_just_released are written here and cleared at
\* the end of a tick but read nowhere, and are left out.
KeyDown ==
  /\ pc = "wait"
  /\ ~destroyed
  /\ \E k \in Keys : keys' = keys \cup {k}
  /\ UNCHANGED << project, editor_project, loads, current_frame_idx,
                  running, paused, tick, score, lives,
                  global_values, mouse_buttons, undo_stack, redo_stack, max_history, undo_calls, selected_object, clipboard, entities, frame_started, next_uid, destroyed,
                  drawn, pc, ticks_run, phases, evlog, seen, onceHist, oor,
                  killed, dead_checks >>

\* on_key_up
KeyUp ==
  /\ pc = "wait"
  /\ ~destroyed
  /\ \E k \in Keys : keys' = keys \ {k}
  /\ UNCHANGED << project, editor_project, loads, current_frame_idx,
                  running, paused, tick, score, lives,
                  global_values, mouse_buttons, undo_stack, redo_stack, max_history, undo_calls, selected_object, clipboard, entities, frame_started, next_uid, destroyed,
                  drawn, pc, ticks_run, phases, evlog, seen, onceHist, oor,
                  killed, dead_checks >>

Next ==
  \/ GameLoop
  \/ ProcessEvents
  \/ UpdatePhysics
  \/ RemoveDead
  \/ CheckCollisions
  \/ Render
  \/ EndTick
  \/ Close
  \/ KeyDown
  \/ KeyUp

Spec == Init /\ [][Next]_vars

\* ------------------------------------------------------------------------
\* Sessions of a scene whose only rule is "Every N ms", tick by tick
\* ------------------------------------------------------------------------

\* ticks such a session is run for
MaxEveryTicks == 70

EveryN(n) == make_condition("Every N ms", "", [ms |-> n])

\* a project with the given frame rate and one empty scene with the rule
\* [Every n ms -> Add to score 1]
EveryProject(fps, n) ==
  [ fps |-> fps, lives |-> 3,
    global_values |-> [i \in 1..NUM_GLOBALS |-> 0],
    frames |-> << make_default_frame(Px(800), Px(600), << >>,
                    << make_event_group(<< EveryN(n) >>, << AddToScore(1) >>) >>) >> ]

\* frame rates (frame_ms 33, 16 and 1) and periods
EveryInputs == {30, 60, 1000} \X {10, 16, 17, 32, 33, 34, 50, 100, 500}

InitEvery == \E inp \in EveryInputs : GameRuntime(EveryProject(inp[1], inp[2]), 0)

\* one call of game_loop: with no entity in the scene physics, pruning, the
\* consequences and render change nothing, and the call ends with
\* frame_started = False and tick += 1.  evlog is kept over the session.
EveryTick ==
  /\ running
  /\ ~paused
  /\ tick < MaxEveryTicks
  /\ LET s == process_events(Self, current_frame_idx, 1)
     IN  Install([s EXCEPT !.frame_started = FALSE, !.tick = @ + 1])
  /\ UNCHANGED << paused, keys, mouse_buttons, undo_stack, redo_stack, max_history, undo_calls, selected_object, clipboard, drawn, pc, ticks_run, phases >>

NextEvery == EveryTick

SpecEvery == InitEvery /\ [][NextEvery]_vars

\* ------------------------------------------------------------------------
\* Sessions the host pauses and resumes
\* ------------------------------------------------------------------------

\* pause() of the host's control surface, between two callbacks
Pause ==
  /\ pc = "wait"
  /\ ~paused
  /\ paused' = TRUE
  /\ UNCHANGED << project, editor_project, loads, current_frame_idx,
                  running, tick, score, lives,
                  global_values, keys, mouse_buttons, undo_stack, redo_stack, max_history, undo_calls, selected_object, clipboard, entities, frame_started, next_uid,
                  destroyed, drawn, pc, ticks_run, phases, evlog, seen, onceHist,
                  oor, killed, dead_checks >>

\* resume() of the host's control surface, between two callbacks
Resume ==
  /\ pc = "wait"
  /\ paused
  /\ paused' = FALSE
  /\ UNCHANGED << project, editor_project, loads, current_frame_idx,
                  running, tick, score, lives,
                  global_values, keys, mouse_buttons, undo_stack, redo_stack, max_history, undo_calls, selected_object, clipboard, entities, frame_started, next_uid,
                  destroyed, drawn, pc, ticks_run, phases, evlog, seen, onceHist,
                  oor, killed, dead_checks >>

\* the scenes of Layouts with the rules of LayoutEvents, started in scene 0
\* or in the second scene, whose rules hold an "At start of frame" and a Once
InitPause ==
  \E objs \in Layouts, start_frame \in {0, 1} :
     GameRuntime(make_default_project(2, objs, LayoutEvents), start_frame)

NextPause ==
  \/ Next
  \/ Pause
  \/ Resume

SpecPause == InitPause /\ [][NextPause]_vars

\* ------------------------------------------------------------------------
\* Single calls of exec_action and eval_condition on a loaded scene
\* ------------------------------------------------------------------------

\* calls made in such a session
MaxActions == 2

\* a scene with two coins of the same name, a player and an enemy; a scene
\* with one coin
ActionLayouts ==
  { << Player(1, 0, 0), Coin(2, 10, 10), Coin(7, 50, 10), Enemy(3, 20, 30) >>,
    << Coin(2, 10, 10) >> }

\* selectors of the actions: a type, a name, and a name no object has
ActionTargets == { "Coin", "Hero", "Nobody" }

\* the actions of ACTIONS that take a target and have a branch in exec_action
TargetedActions(target) ==
  { make_action("Destroy", target, NoParams),
    make_action("Set position", target, [x |-> Px(7), y |-> Px(9)]),
    make_action("Set X", target, [value |-> Px(3)]),
    make_action("Set Y", target, [value |-> Px(4)]),
    make_action("Set speed", target, [value |-> Px(6)]),
    make_action("Add to counter", target, [value |-> 2]),
    make_action("Set counter to", target, [value |-> 9]),
    make_action("Make invisible", target, NoParams),
    make_action("Make visible", target, NoParams),
    make_action("Flash", target, [duration |-> 4]),
    make_action("Bounce", target, NoParams) }

\* indexes of a global value an action can carry: the ends of the list and
\* their neighbours outside it
GlobalIndexes == { 0 - 1, 0, NUM_GLOBALS - 1, NUM_GLOBALS }

GlobalActions ==
  UNION { { make_action("Set global value", "", [index |-> idx, value |-> 5]),
            make_action("Add to global value", "", [index |-> idx, value |-> 3]) } :
          idx \in GlobalIndexes }

\* entries of ACTIONS that have no branch in exec_action, and a tag that is
\* in no list
UnknownActionTypes == { "Play sound", "Pause", "Set lives", "Previous frame (app)", "Teleport" }

UnknownActions ==
  { make_action(atype, target, [value |-> 1]) :
      atype \in UnknownActionTypes, target \in { "Coin", "" } }

ActionPool ==
  UNION { TargetedActions(target) : target \in ActionTargets }
    \cup GlobalActions \cup UnknownActions \cup { AddToScore(5) }

\* entries of CONDITIONS that have no branch in eval_condition, and a tag
\* that is in no list
UnknownConditionTypes ==
  { "Timer equals", "Overlaps", "Key released", "Compare X", "Compare global value",
    "Is moving" }

\* the conditions evaluated, one group each: the last five are unknown ones
\* (one of them negated) and "Every N ms" with the period 0
ConditionCatalogue ==
  << Always, Never, Once, AtStart, KeyPressed("Right"),
     make_condition("Mouse clicked", "", NoParams),
     Collides("Hero", "Coin"), CompareCounter("Coin", ">=", 2),
     make_condition("Object out of playfield", "Coin", NoParams),
     EveryN(100),
     make_condition("Timer equals", "", [value |-> 1]),
     Negated(make_condition("Overlaps", "Hero", [other |-> "Coin"])),
     make_condition("Compare X", "Coin", [op |-> "<", value |-> 0]),
     make_condition("Is moving", "Hero", NoParams),
     EveryN(0) >>

ActionProject(objects) ==
  make_default_project(3, objects,
    [g \in 1..Len(ConditionCatalogue) |->
       make_event_group(<< ConditionCatalogue[g] >>, << >>)])

InitActions == \E objs \in ActionLayouts : GameRuntime(ActionProject(objs), 0)

\* one call exec_action(a).  evlog holds the call and whether it raised.
ExecAction ==
  /\ pc # "error"
  /\ ticks_run < MaxActions
  /\ \E a \in ActionPool :
       LET s == exec_action(Self, a)
       IN  /\ Install([s EXCEPT !.evlog =
                         << [k |-> "exec", action |-> a, raised |-> s.raised] >>])
           /\ pc' = IF s.raised THEN "error" ELSE pc
  /\ ticks_run' = ticks_run + 1
  /\ UNCHANGED << paused, keys, mouse_buttons, undo_stack, redo_stack, max_history, undo_calls, selected_object, clipboard, drawn, phases >>

\* one call eval_condition(cond) for the condition of group g of the scene.
\* evlog holds the call, its result and whether it raised.
EvalCondition ==
  /\ pc # "error"
  /\ ticks_run < MaxActions
  /\ \E g \in 1..Len(FrameAt(project, current_frame_idx).events) :
       LET r == eval_condition(Self, current_frame_idx, g, 1)
       IN  /\ Install([r.s EXCEPT !.evlog =
                         << [k |-> "cond", g |-> g, met |-> r.met,
                             raised |-> r.s.raised] >>])
           /\ pc' = IF r.s.raised THEN "error" ELSE pc
  /\ ticks_run' = ticks_run + 1
  /\ UNCHANGED << paused, keys, mouse_buttons, undo_stack, redo_stack, max_history, undo_calls, selected_object, clipboard, drawn, phases >>

\* <Button-1> and <ButtonRelease-1>
Button1 ==
  /\ pc # "error"
  /\ mouse_buttons' = IF 1 \in mouse_buttons THEN {} ELSE {1}
  /\ UNCHANGED << project, editor_project, loads, current_frame_idx,
                  running, paused, tick, score, lives,
                  global_values, keys, selected_object, clipboard, entities,
                  undo_stack, redo_stack, max_history, undo_calls,
                  frame_started, next_uid, destroyed,
                  drawn, pc, ticks_run, phases, evlog, seen, onceHist, oor,
                  killed, dead_checks >>

NextActions ==
  \/ ExecAction
  \/ EvalCondition
  \/ Button1

SpecActions == InitActions /\ [][NextActions]_vars

\* ------------------------------------------------------------------------
\* The editor: object management of ACEngine on the scene it shows
\* ------------------------------------------------------------------------

\* objects insert_object and paste_object make in such a session
MaxNewObjects == 3

\* object lists of the scene the editor starts with: each holds at most one
\* Player
EditorLayouts ==
  { << >>, << Coin(2, 10, 10) >>, << Player(1, 0, 0), Coin(2, 10, 10) >> }

\* entries of the Insert menu
InsertTypes == { "Player", "Coin", "Platform" }

\* self.get_current_frame()["objects"]
EditorObjects == FrameAt(editor_project, current_frame_idx).objects

\* frame["objects"] = objs
SetEditorObjects(objs) ==
  editor_project' = [editor_project EXCEPT !.frames[current_frame_idx + 1].objects = objs]

\* no play session exists and the editor leaves its fields alone
NoSession ==
  UNCHANGED << project, loads, current_frame_idx, running, paused, tick, score,
               lives, global_values, keys, mouse_buttons, undo_stack, redo_stack, max_history, undo_calls, entities, frame_started,
               destroyed, drawn, pc, ticks_run, phases, evlog, seen, onceHist,
               oor, killed, dead_checks >>

\* ACEngine.__init__ and a project: nothing selected, empty clipboard, no
\* play session; an UndoManager(history)
EditorInit(objs, history) ==
     LET proj == make_default_project(3, objs, << >>)
     IN  /\ editor_project = proj
         /\ selected_object = << >>
         /\ clipboard = << >>
         /\ next_uid = 1000
         /\ current_frame_idx = 0
         /\ project = proj
         /\ loads = << >>
         /\ running = FALSE
         /\ paused = FALSE
         /\ tick = 0
         /\ score = 0
         /\ lives = 0
         /\ global_values = proj.global_values
         /\ keys = {}
         /\ mouse_buttons = {}
         /\ UndoManagerInit(history)
         /\ entities = << >>
         /\ frame_started = FALSE
         /\ destroyed = TRUE
         /\ drawn = << >>
         /\ pc = "done"
         /\ ticks_run = 0
         /\ phases = << >>
         /\ evlog = << >>
         /\ seen = {}
         /\ onceHist = [pos \in OncePositions(proj) |-> << >>]
         /\ oor = FALSE
         /\ killed = {}
         /\ dead_checks = {}

InitEditor == \E objs \in EditorLayouts : EditorInit(objs, MAX_HISTORY)

\* insert_object(obj_type) from the Insert menu, at the default position
insert_object ==
  /\ next_uid < 1000 + MaxNewObjects
  /\ \E obj_type \in InsertTypes :
       LET kept == IF obj_type = "Player"
                   THEN SelectSeq(EditorObjects, LAMBDA o : o.type # "Player")
                   ELSE EditorObjects
           obj  == make_default_object(next_uid, obj_type, "uid_name", Px(100), Px(100))
       IN  /\ SetEditorObjects(Append(kept, obj))
           /\ selected_object' = << obj >>
  /\ next_uid' = next_uid + 1
  /\ UNCHANGED clipboard
  /\ NoSession

\* handle_select: a click on an object of the scene or on the empty canvas
handle_select ==
  /\ \E i \in 0..Len(EditorObjects) :
       selected_object' = IF i = 0 THEN << >> ELSE << EditorObjects[i] >>
  /\ UNCHANGED << editor_project, clipboard, next_uid >>
  /\ NoSession

\* delete_selected_object
delete_selected_object ==
  /\ selected_object # << >>
  /\ SetEditorObjects(SelectSeq(EditorObjects,
                                LAMBDA o : o.id # selected_object[1].id))
  /\ selected_object' = << >>
  /\ UNCHANGED << clipboard, next_uid >>
  /\ NoSession

\* copy_object
copy_object ==
  /\ selected_object # << >>
  /\ clipboard' = selected_object
  /\ UNCHANGED << editor_project, selected_object, next_uid >>
  /\ NoSession

\* the object paste_object makes of the clipboard content clip
Pasted(clip) ==
  [clip EXCEPT !.id = next_uid, !.name = "uid_name",
               !.x = @ + Px(32), !.y = @ + Px(32)]

\* paste_object
paste_object ==
  /\ clipboard # << >>
  /\ next_uid < 1000 + MaxNewObjects
  /\ SetEditorObjects(Append(EditorObjects, Pasted(clipboard[1])))
  /\ selected_object' = << Pasted(clipboard[1]) >>
  /\ next_uid' = next_uid + 1
  /\ UNCHANGED clipboard
  /\ NoSession

\* duplicate_object: copy_object, then paste_object
duplicate_object ==
  /\ selected_object # << >>
  /\ next_uid < 1000 + MaxNewObjects
  /\ clipboard' = selected_object
  /\ SetEditorObjects(Append(EditorObjects, Pasted(selected_object[1])))
  /\ selected_object' = << Pasted(selected_object[1]) >>
  /\ next_uid' = next_uid + 1
  /\ NoSession

NextEditor ==
  \/ insert_object
  \/ handle_select
  \/ delete_selected_object
  \/ copy_object
  \/ paste_object
  \/ duplicate_object

SpecEditor == InitEditor /\ [][NextEditor]_vars

\* ------------------------------------------------------------------------
\* Calls on an UndoManager
\* ------------------------------------------------------------------------

\* calls made on one manager
MaxUndoOps == 5

\* the states handed to the manager
Snapshots == {"a", "b"}

\* the values of max_history the manager is constructed with
UndoMaxHistories == {1, 2, MAX_HISTORY}

InitUndo == \E n \in UndoMaxHistories : EditorInit(<< >>, n)

\* the record of a call: its name, argument and result, and the stacks
\* before and after it
UndoCall(op, arg, ret, um) ==
  [op |-> op, arg |-> arg, ret |-> ret,
   undo_before |-> undo_stack, redo_before |-> redo_stack,
   undo_after |-> um.undo_stack, redo_after |-> um.redo_stack]

\* a call of push
Push ==
  /\ Len(undo_calls) < MaxUndoOps
  /\ \E state_snapshot \in Snapshots :
       LET um == push(UndoManager, state_snapshot)
       IN  /\ undo_stack' = um.undo_stack
           /\ redo_stack' = um.redo_stack
           /\ undo_calls' = Append(undo_calls, UndoCall("push", state_snapshot, << >>, um))
  /\ UNCHANGED << max_history, project, loads, current_frame_idx, running, paused,
                  tick, score, lives, global_values, keys, mouse_buttons, entities,
                  frame_started, destroyed, drawn, pc, ticks_run, phases, evlog,
                  seen, onceHist, oor, killed, dead_checks, editor_project,
                  selected_object, clipboard, next_uid >>

\* a call of undo
Undo ==
  /\ Len(undo_calls) < MaxUndoOps
  /\ \E current_state \in Snapshots :
       LET r == undo(UndoManager, current_state)
       IN  /\ undo_stack' = r.um.undo_stack
           /\ redo_stack' = r.um.redo_stack
           /\ undo_calls' = Append(undo_calls, UndoCall("undo", current_state, r.ret, r.um))
  /\ UNCHANGED << max_history, project, loads, current_frame_idx, running, paused,
                  tick, score, lives, global_values, keys, mouse_buttons, entities,
                  frame_started, destroyed, drawn, pc, ticks_run, phases, evlog,
                  seen, onceHist, oor, killed, dead_checks, editor_project,
                  selected_object, clipboard, next_uid >>

\* a call of redo
Redo ==
  /\ Len(undo_calls) < MaxUndoOps
  /\ \E current_state \in Snapshots :
       LET r == redo(UndoManager, current_state)
       IN  /\ undo_stack' = r.um.undo_stack
           /\ redo_stack' = r.um.redo_stack
           /\ undo_calls' = Append(undo_calls, UndoCall("redo", current_state, r.ret, r.um))
  /\ UNCHANGED << max_history, project, loads, current_frame_idx, running, paused,
                  tick, score, lives, global_values, keys, mouse_buttons, entities,
                  frame_started, destroyed, drawn, pc, ticks_run, phases, evlog,
                  seen, onceHist, oor, killed, dead_checks, editor_project,
                  selected_object, clipboard, next_uid >>

NextUndo == Push \/ Undo \/ Redo

SpecUndo == InitUndo /\ [][NextUndo]_vars

\* ------------------------------------------------------------------------
\* Sessions of scenes that exercise update_physics
\* ------------------------------------------------------------------------

Active(id, x, y) == make_default_object(id, "Active", "Box", Px(x), Px(y))

\* the object with the movement and speed set in the properties panel
WithMovement(obj, movement, speed) == [obj EXCEPT !.movement = movement, !.speed = speed]

Flash(target, duration) == make_action("Flash", target, [duration |-> duration])

\* object lists of a scene: a player on a floor under a ceiling; a player on
\* a floor; a player at the fall margin below the world; bouncing enemies
\* beside a solid, at the left and at the right world edge; objects with the
\* movements update_physics has no branch for, over a solid; two players on
\* one enemy
PhysicsLayouts ==
  { << Player(1, 0, 68), Platform(5, 0, 100), Platform(6, 0, 30) >>,
    << Player(1, 0, 68), Platform(5, 0, 100) >>,
    << Player(1, 0, 650) >>,
    << Enemy(3, 10, 0), Platform(5, 44, 0), Enemy(8, 0 - 2, 200), Enemy(9, 766, 300) >>,
    << WithMovement(Active(10, 50, 0), "Path", Px(3)),
       WithMovement(Active(11, 60, 0), "Race Car", Px(3)),
       WithMovement(Active(12, 70, 0), "Platform", Px(3)),
       WithMovement(Active(13, 80, 0), "Zigzag", Px(3)),
       Active(14, 90, 0), Platform(5, 40, 10) >>,
    << Player(1, 0, 0), Player(4, 8, 0), Enemy(3, 10, 5) >> }

\* the rules of these scenes
PhysicsEvents ==
  << make_event_group(<< Once >>, << Flash("Enemy", 3) >>),
     make_event_group(<< KeyPressed("Right") >>, << Simple("Subtract life") >>) >>

InitPhysics ==
  \E objs \in PhysicsLayouts :
     GameRuntime(make_default_project(1, objs, PhysicsEvents), 0)

SpecPhysics == InitPhysics /\ [][Next]_vars

\* ------------------------------------------------------------------------
\* Long sessions without input, one game_loop call per step
\* ------------------------------------------------------------------------

\* ticks such a session is run for
MaxLongTicks == 40

\* object lists of a scene without solids: a player left of the world and a
\* player right of it that fall out of it; Bouncing enemies wholly outside the world on the left and
\* on the right, partly outside on the left and on the right, and inside
\* near the right edge; a Static and a Bouncing enemy inside
LongLayouts ==
  { << Player(1, 0 - 40, 300) >>,
    << Player(1, 900, 300) >>,
    << Enemy(3, 0 - 100, 0) >>,
    << Enemy(3, 900, 0) >>,
    << Enemy(3, 0 - 1, 0) >>,
    << Enemy(3, 790, 0) >>,
    << Enemy(3, 740, 0) >>,
    << WithMovement(Enemy(3, 100, 100), "Static", 0), Enemy(8, 300, 300) >> }

\* the rule of these scenes
LongEvents == << make_event_group(<< Once >>, << Flash("Enemy", 6) >>) >>

InitLong ==
  \E objs \in LongLayouts : GameRuntime(make_default_project(3, objs, LongEvents), 0)

\* render reads the tick counter as tick % 4
TickCycle == 4

\* one call of game_loop of a running session, from the rule pass to
\* self.after; an exception ends it where it is raised. With wrapped the
\* tick counter is kept modulo TickCycle, which is all that a scene without
\* timed conditions reads of it
GameLoopCall(wrapped) ==
  /\ pc \in {"call", "wait"}
  /\ running
  /\ ~paused
  /\ \E s1 \in { process_events([Self EXCEPT !.evlog = << >>, !.oor = FALSE,
                                                !.killed = {}, !.dead_checks = {},
                                                !.loads = << >>],
                                   current_frame_idx, 1) } :
     \E s3 \in { [ update_physics(s1) EXCEPT !.entities = RemoveDeadEntities(@) ] } :
     \E s4 \in { Consequences(s3) } :
       IF s1.raised
       THEN /\ Install(s1)
            /\ pc' = "error"
            /\ phases' = << >>
            /\ UNCHANGED drawn
       ELSE IF s4.destroyed
       THEN /\ Install(s4)
            /\ pc' = "error"
            /\ phases' = << "rules", "physics", "prune", "consequences" >>
            /\ UNCHANGED drawn
       ELSE /\ Install([s4 EXCEPT !.frame_started = FALSE,
                                   !.tick = IF wrapped THEN (@ + 1) % TickCycle
                                            ELSE @ + 1])
            /\ drawn' = RenderList(s4.entities, s4.tick)
            /\ pc' = "wait"
            /\ phases' = << "rules", "physics", "prune", "consequences", "render" >>
  /\ UNCHANGED << paused, keys, mouse_buttons, undo_stack, redo_stack, max_history, undo_calls, selected_object, clipboard >>

\* a call of game_loop in a session of bounded length
GameTick ==
  /\ tick < MaxLongTicks
  /\ GameLoopCall(FALSE)
  /\ ticks_run' = ticks_run + 1

NextLong == GameTick

SpecLong == InitLong /\ [][NextLong]_vars

\* ------------------------------------------------------------------------
\* Sessions without end of a scene of Bouncing entities and no rules
\* ------------------------------------------------------------------------

\* object lists of a scene without solids: a Bouncing enemy wholly outside
\* the world on the left and on the right, partly outside on the left and on
\* the right, and inside
BounceLayouts ==
  { << Enemy(3, 0 - 100, 0) >>,
    << Enemy(3, 900, 0) >>,
    << Enemy(3, 0 - 1, 0) >>,
    << Enemy(3, 790, 0) >>,
    << Enemy(3, 740, 0) >> }

InitBounce ==
  \E objs \in BounceLayouts : GameRuntime(make_default_project(3, objs, << >>), 0)

\* a call of game_loop in a session that is never closed
GameTickCyclic ==
  /\ GameLoopCall(TRUE)
  /\ UNCHANGED ticks_run

NextBounce == GameTickCyclic

\* the timer set by self.after fires as long as the session runs
SpecBounce == InitBounce /\ [][NextBounce]_vars /\ WF_vars(GameTickCyclic)

\* ------------------------------------------------------------------------
\* Properties
\* ------------------------------------------------------------------------

\* the order of the phases of a tick in game_loop
PhaseOrder == << "rules", "physics", "prune", "consequences", "render" >>

\* the game_loop invocation that started the last tick has returned or raised
TickOver == ticks_run > 0 /\ pc \in {"wait", "done", "error"}

\* the conditions of the group a log entry is about
ConditionsOf(entry) == FrameAt(project, entry.f).events[entry.g].conditions

\* C1: in process_events an active rule group whose condition list is empty
\* never has any of its actions executed: every action the rule pass of a
\* tick executed belongs to a group with at least one condition.
C1_EmptyGroupNeverActs ==
  \A n \in 1..Len(evlog) :
    evlog[n].k = "act" => ConditionsOf(evlog[n]) # << >>

\* a rule pass has finished in which an active group with no condition and
\* with an action was processed
C1_Witness ==
  /\ pc = "physics"
  /\ \E n \in 1..Len(evlog) :
       /\ evlog[n].k = "group"
       /\ ConditionsOf(evlog[n]) = << >>
       /\ FrameAt(project, evlog[n].f).events[evlog[n].g].actions # << >>

\* C2: as long as the scene of a Once condition has not been loaded again,
\* the condition is true on its first evaluation and false on every later
\* one; this holds of each Once condition separately.
C2_OnceFiresOnce ==
  \A pos \in DOMAIN onceHist :
    \A i \in 1..Len(onceHist[pos]) :
      (\A j \in 1..i : onceHist[pos][j] # "L")
        => (onceHist[pos][i] = "T" <=> i = 1)

\* two Once conditions of different groups have each been evaluated on two
\* ticks, with no load in between
C2_Witness ==
  \E p1 \in DOMAIN onceHist, p2 \in DOMAIN onceHist :
    /\ p1[1] = p2[1]
    /\ p1[2] # p2[2]
    /\ onceHist[p1] = << "T", "F" >>
    /\ onceHist[p2] = << "T", "F" >>

\* C3: whenever a scene is loaded or reloaded, the fired state of the Once
\* conditions of its groups is reset: the first evaluation of such a
\* condition after the load is true.
C3_OnceResetOnLoad ==
  \A pos \in DOMAIN onceHist :
    \A i \in 1..(Len(onceHist[pos]) - 1) :
      (onceHist[pos][i] = "L" /\ onceHist[pos][i + 1] # "L")
        => onceHist[pos][i + 1] = "T"

\* C4: after every scene load the groups of the loaded scene see "At start
\* of frame" true in the first tick in which they are processed after the
\* load and false in every later tick: when a group of the loaded scene is
\* processed, frame_started is true exactly if this is the first time since
\* the load.
C4_StartOfFrameFirstTick ==
  \A n \in 1..Len(evlog) :
    (evlog[n].k = "group" /\ evlog[n].own) => (evlog[n].val <=> evlog[n].first)

\* C5: a load_frame with an index out of range ends the session and the
\* rest of the tick completes without an error.
C5_OutOfRangeEndsQuietly ==
  oor => (~running /\ pc # "error")

\* C6: once running is false it stays false, no game_loop invocation starts
\* a tick, and when no tick is in flight the entities, score, lives, global
\* values and tick counter never change.
C6_SessionEndTerminal ==
  [][ /\ (~running => ~running')
      /\ (~running /\ pc \in {"call", "wait", "done", "error"})
           => /\ pc' # "events"
              /\ UNCHANGED << entities, score, lives, global_values, tick,
                              ticks_run >> ]_vars

\* game_loop has been invoked after the session had ended, and has returned
C6_Witness == ~running /\ pc = "done" /\ ticks_run > 0

\* C7: at the end of every tick, lives <= 0 implies that the session has
\* ended.
C7_ZeroLivesEndsSession ==
  (TickOver /\ lives <= 0) => ~running

\* C8: in every tick the phases run exactly once each in the order rules,
\* physics, pruning, consequences, render: the phases completed so far are a
\* prefix of that order, and all of them when the tick is over.
C8_PhasesInOrder ==
  /\ Len(phases) <= Len(PhaseOrder)
  /\ phases = SubSeq(PhaseOrder, 1, Len(phases))
  /\ TickOver => phases = PhaseOrder

\* C9: an entity marked dead by a consequence rule has been removed from the
\* live entity list by the end of the same tick.
C9_KilledRemovedSameTick ==
  TickOver => \A i \in 1..Len(entities) : entities[i].id \notin killed

\* C9, amended: pruning runs before the consequence rules, so right after
\* pruning every entity of the list is alive, and an entity marked dead by a
\* consequence rule is still in the list, with alive false, when the tick
\* is over; the render of that tick leaves it out.
C9_KilledStayUntilNextPrune ==
  /\ pc = "conseq" => \A i \in 1..Len(entities) : entities[i].alive
  /\ pc \in {"render", "end", "wait", "done", "error"}
       => \A id \in killed :
            /\ \E i \in 1..Len(entities) :
                 entities[i].id = id /\ ~entities[i].alive
            /\ pc \in {"end", "wait", "done"}
                 => \A k \in 1..Len(drawn) : drawn[k] # id

\* a tick is over in which a consequence rule marked an entity dead
C9_Witness == pc = "wait" /\ killed # {}

\* C10: an entity marked dead takes part in no later collision check of the
\* tick, in conditions, in physics and in the built-in checks.
C10_DeadNeverChecked == dead_checks = {}

\* the fields an entity has at run time that an authored object has not
RuntimeFields == {"dx", "dy", "grounded", "alive", "flash_timer", "dir_x", "gravity"}

\* entry is the record of a rule action that calls load_frame
IsLoadAction(entry) ==
  /\ entry.k = "act"
  /\ FrameAt(project, entry.f).events[entry.g].actions[entry.i].type
       \in {"Go to frame", "Next frame (app)", "Restart frame"}

\* C11: every successful load_frame(idx) of a tick left the scene index at
\* idx, the tick counter at 0 and, as the entity list, one clone per authored
\* object of scene idx in authored order, with the authored fields kept and
\* dx = 0, dy = 0, grounded = false, alive = true, flash_timer = 0; nothing
\* else is in the list.  When the load was the last thing the rule pass did,
\* this is the state the runtime is in after the pass.
C11_LoadReplacesScene ==
  /\ \A n \in 1..Len(loads) :
       LET l    == loads[n]
           objs == FrameAt(editor_project, l.idx).objects
       IN  /\ l.idx \in 0..(Len(editor_project.frames) - 1)
           /\ l.current_frame_idx = l.idx
           /\ l.tick = 0
           /\ Len(l.entities) = Len(objs)
           /\ \A i \in 1..Len(objs) :
                LET e == l.entities[i]
                IN  /\ DOMAIN e = DOMAIN objs[i] \cup RuntimeFields
                    /\ \A fld \in DOMAIN objs[i] : e[fld] = objs[i][fld]
                    /\ e.dx = 0
                    /\ e.dy = 0
                    /\ e.grounded = FALSE
                    /\ e.alive = TRUE
                    /\ e.flash_timer = 0
  /\ (pc = "physics" /\ loads # << >> /\ ~oor /\ IsLoadAction(evlog[Len(evlog)]))
       => /\ entities = loads[Len(loads)].entities
          /\ tick = 0
          /\ current_frame_idx = loads[Len(loads)].idx

\* a load replaced a scene that held an entity made by "Create object" and
\* an entity that was moving
C11_Witness ==
  /\ pc = "physics"
  /\ ~oor
  /\ loads # << >>
  /\ IsLoadAction(evlog[Len(evlog)])
  /\ LET before == loads[Len(loads)].before
     IN  /\ \E i \in 1..Len(before) : before[i].id >= 1000
         /\ \E i \in 1..Len(before) : before[i].dy # 0

\* proj holds no field that only the runtime writes: no runtime field on an
\* object and no fired flag on a condition
NoRuntimeFields(proj) ==
  \A f \in 1..Len(proj.frames) :
    /\ \A i \in 1..Len(proj.frames[f].objects) :
         DOMAIN proj.frames[f].objects[i] \cap RuntimeFields = {}
    /\ \A g \in 1..Len(proj.frames[f].events) :
         \A c \in 1..Len(proj.frames[f].events[g].conditions) :
           "fired" \notin DOMAIN proj.frames[f].events[g].conditions[c]

Overlapped(ents, i, obj_type) ==
  { j \in Range(AliveOfType(ents, obj_type)) : aabb_overlap(ents[i], ents[j]) }

\* the stomp test of the player-enemy check
StompCondition(p, en) == p.dy > 0 /\ p.y + p.h - STOMP_TOLERANCE < en.y

\* the step that runs the player-coin and player-enemy checks of a tick
ConsequenceStep == pc = "conseq" /\ pc' = "render"

\* C13: when the consequence phase starts with one alive Player, falling,
\* that overlaps one Coin and one Enemy with player.y + player.h - 10 <
\* enemy.y, the phase adds the coin's score value plus 200 to the score,
\* marks the coin dead iff its destroy_on_collect is set, marks the enemy
\* dead, sets the player's dy to -8 and leaves lives unchanged.
C13_FallOntoCoinAndEnemy ==
  [][ConsequenceStep =>
       \A i \in Range(AliveOfType(entities, "Player")) :
         \A c \in Overlapped(entities, i, "Coin") :
           \A en \in Overlapped(entities, i, "Enemy") :
             ( /\ Len(AliveOfType(entities, "Player")) = 1
               /\ Overlapped(entities, i, "Coin") = {c}
               /\ Overlapped(entities, i, "Enemy") = {en}
               /\ StompCondition(entities[i], entities[en]) )
             => /\ score' = score + entities[c].score_value + STOMP_SCORE
                /\ entities'[c].alive = ~entities[c].destroy_on_collect
                /\ entities'[en].alive = FALSE
                /\ entities'[i].dy = STOMP_BOUNCE
                /\ lives' = lives]_vars

\* the consequence phase of a tick is over in which the only player, still
\* on a coin that is kept, has stomped the enemy
C13_Witness ==
  /\ pc = "render"
  /\ Len(AliveOfType(entities, "Player")) = 1
  /\ \E i \in Range(AliveOfType(entities, "Player")) :
       /\ entities[i].dy = STOMP_BOUNCE
       /\ \E c \in Overlapped(entities, i, "Coin") : ~entities[c].destroy_on_collect
  /\ \E en \in 1..Len(entities) :
       entities[en].type = "Enemy" /\ entities[en].id \in killed
  /\ score >= 100 + STOMP_SCORE

\* the player p after the hurt branch has moved it to the respawn point
Respawned(p) == [p EXCEPT !.x = RESPAWN_X, !.y = RESPAWN_Y, !.dy = 0]

\* C14: when the consequence phase starts with one alive Player that
\* overlaps no Coin and one Enemy for which the stomp condition does not
\* hold (and meets no other Enemy, where it stands or at the respawn point),
\* the phase lowers lives by exactly 1, moves the player to (50,50) with
\* dy = 0, leaves the enemy alive and the score unchanged, and ends the
\* session if the resulting lives is <= 0.
C14_HurtByEnemy ==
  [][ConsequenceStep =>
       \A i \in Range(AliveOfType(entities, "Player")) :
         \A en \in Overlapped(entities, i, "Enemy") :
           ( /\ Len(AliveOfType(entities, "Player")) = 1
             /\ Overlapped(entities, i, "Coin") = {}
             /\ Overlapped(entities, i, "Enemy") = {en}
             /\ \A e2 \in Range(AliveOfType(entities, "Enemy")) \ {en} :
                  ~aabb_overlap(Respawned(entities[i]), entities[e2])
             /\ ~StompCondition(entities[i], entities[en]) )
           => /\ lives' = lives - 1
              /\ entities'[i].x = RESPAWN_X
              /\ entities'[i].y = RESPAWN_Y
              /\ entities'[i].dy = 0
              /\ entities'[en].alive
              /\ score' = score
              /\ (lives' <= 0 => ~running' /\ destroyed')
              /\ (lives' > 0 => running' = running)]_vars

\* the consequence phase of a tick is over in which the only player was
\* hurt by an enemy that is still alive, and the last life was lost
C14_Witness ==
  /\ pc = "render"
  /\ killed = {}
  /\ lives = 0
  /\ ~running
  /\ Len(AliveOfType(entities, "Player")) = 1
  /\ Len(AliveOfType(entities, "Enemy")) = 1
  /\ \E i \in Range(AliveOfType(entities, "Player")) :
       entities[i].x = RESPAWN_X /\ entities[i].y = RESPAWN_Y /\ entities[i].dy = 0

\* the step that runs update_physics
PhysicsPhase == pc = "physics" /\ pc' = "prune"

\* positions of the alive solid entities other than the one at position i
SolidsFor(ents, i) ==
  { j \in 1..Len(ents) : ents[j].alive /\ ents[j].solid /\ ents[j].id # ents[i].id }

\* the entity p stands exactly on top of sol
StandsOn(p, sol) ==
  /\ p.y + p.h = sol.y
  /\ p.x < sol.x + sol.w
  /\ p.x + p.w > sol.x

\* none of the keys update_physics reads for a Player movement is held
NoKeyHeld == keys \cap {"Left", "Right", "Up", "space"} = {}

Evaluations == SelectSeq(evlog, LAMBDA entry : entry.k = "eval")

\* the ticks among those run whose product with f lies in the k-th window of
\* n milliseconds and in which the condition was true
FiredInWindow(f, n, k) ==
  { t \in 0..(Len(Evaluations) - 1) :
      /\ k * n <= t * f
      /\ t * f < (k + 1) * n
      /\ Evaluations[t + 1].val }

\* C16: in a session without scene loads, with f = frame_ms and a period
\* n >= f, "Every N ms" is true on tick 0, is true on at most one tick of
\* every window k*n <= t*f < (k+1)*n, and on exactly one tick of every window
\* whose ticks have all been run.
C16_EveryOncePerWindow ==
  LET f == frame_ms(project)
      n == FrameAt(project, 0).events[1].conditions[1].params.ms
  IN  n >= f =>
        /\ Len(Evaluations) = tick
        /\ (tick > 0 => Evaluations[1].val)
        /\ \A k \in 0..((tick * f) \div n) :
             /\ Cardinality(FiredInWindow(f, n, k)) <= 1
             /\ ((k + 1) * n <= tick * f => Cardinality(FiredInWindow(f, n, k)) = 1)

\* n = 500 at 60 fps: two windows of 500 ms are over and the rule has fired
\* once in each
C16_Witness ==
  /\ project.fps = 60
  /\ FrameAt(project, 0).events[1].conditions[1].params.ms = 500
  /\ tick = 63
  /\ score = 2
  /\ Cardinality(FiredInWindow(16, 500, 0)) = 1
  /\ Cardinality(FiredInWindow(16, 500, 1)) = 1

\* the step that runs the rule pass of a tick
RulePass == pc = "events" /\ pc' \in {"physics", "error"}

\* the log entries a and b are about the same group
SameGroup(a, b) == a.f = b.f /\ a.g = b.g

\* C17: in the rule pass of a tick the conditions of a group are evaluated
\* in list order, each only after the one before it was true after negation;
\* once a condition is false after negation, no later condition of the
\* group is evaluated, every later condition is left as it was (a Once
\* among them keeps its fired flag unset) and no action of the group runs.
C17_ShortCircuit ==
  [][RulePass =>
       \A n \in 1..Len(evlog') :
         evlog'[n].k = "eval" =>
           /\ n > 1
           /\ SameGroup(evlog'[n - 1], evlog'[n])
           /\ IF evlog'[n].i = 1
              THEN evlog'[n - 1].k = "group"
              ELSE /\ evlog'[n - 1].k = "eval"
                   /\ evlog'[n - 1].i = evlog'[n].i - 1
                   /\ evlog'[n - 1].val
           /\ ~evlog'[n].val =>
                /\ \A m \in (n + 1)..Len(evlog') :
                     ~(SameGroup(evlog'[m], evlog'[n]) /\ evlog'[m].k \in {"eval", "act"})
                /\ \A c \in (evlog'[n].i + 1)..Len(ConditionsOf(evlog'[n])) :
                     FrameAt(project', evlog'[n].f).events[evlog'[n].g].conditions[c]
                       = FrameAt(project, evlog'[n].f).events[evlog'[n].g].conditions[c]]_vars

\* a rule pass is over in which the first condition of a group was false
\* and the Once condition after it has still not fired
C17_Witness ==
  /\ pc = "physics"
  /\ ticks_run >= 2
  /\ \E n \in 1..Len(evlog) :
       /\ evlog[n].k = "eval"
       /\ evlog[n].i = 1
       /\ ~evlog[n].val
       /\ Len(ConditionsOf(evlog[n])) = 2
       /\ ConditionsOf(evlog[n])[2].type = "Once"
       /\ "fired" \notin DOMAIN ConditionsOf(evlog[n])[2]
       /\ onceHist[<<evlog[n].f, evlog[n].g, 2>>] = << >>

\* the positions <<frame index, group>> of the rule groups with active false
InactiveGroups(proj) ==
  UNION { { <<f, g>> : g \in { h \in 1..Len(FrameAt(proj, f).events) :
                                ~Get(FrameAt(proj, f).events[h], "active", TRUE) } } :
          f \in 0..(Len(proj.frames) - 1) }

\* C18: the rule pass of a tick evaluates no condition and runs no action
\* of a group with active = false and leaves the group as it was; a Once
\* condition inside it has its fired flag unset after the pass.
C18_InactiveGroupSkipped ==
  [][RulePass =>
       \A pos \in InactiveGroups(project) :
         /\ \A n \in 1..Len(evlog') : ~(evlog'[n].f = pos[1] /\ evlog'[n].g = pos[2])
         /\ FrameAt(project', pos[1]).events[pos[2]]
              = FrameAt(project, pos[1]).events[pos[2]]
         /\ \A c \in 1..Len(FrameAt(project', pos[1]).events[pos[2]].conditions) :
              "fired" \notin DOMAIN FrameAt(project', pos[1]).events[pos[2]].conditions[c]]_vars

\* the second rule pass of a session is over, it has processed a group, and
\* the loaded scene has an inactive group whose Once has not fired
C18_Witness ==
  /\ pc = "physics"
  /\ ticks_run >= 2
  /\ evlog # << >>
  /\ \E pos \in InactiveGroups(project) :
       /\ pos[1] = current_frame_idx
       /\ FrameAt(project, pos[1]).events[pos[2]].conditions[1].type = "Once"
       /\ "fired" \notin DOMAIN FrameAt(project, pos[1]).events[pos[2]].conditions[1]
       /\ onceHist[<<pos[1], pos[2], 1>>] = << >>

\* the scene whose rule groups the rule pass of this tick works on
PassFrame == IF evlog = << >> THEN current_frame_idx ELSE evlog[1].f

\* the entries of kind k the log holds for group g, in the order they were made
EntriesOf(g, k) == SelectSeq(evlog, LAMBDA entry : entry.g = g /\ entry.k = k)

\* the active groups of the scene with index f, in list order
ActiveGroupsOf(f) ==
  SelectSeq([g \in 1..Len(FrameAt(project, f).events) |-> g],
            LAMBDA g : Get(FrameAt(project, f).events[g], "active", TRUE))

\* group g of the scene with index f has at least one condition and the
\* pass found every condition of it true after negation
AllConditionsTrue(f, g) ==
  LET conditions == FrameAt(project, f).events[g].conditions
      evals      == EntriesOf(g, "eval")
  IN  /\ conditions # << >>
      /\ Len(evals) = Len(conditions)
      /\ \A c \in 1..Len(evals) : evals[c].i = c /\ evals[c].val

\* nothing that changes an entity was done after entry n of the log
NothingActsAfter(n) ==
  \A m \in (n + 1)..Len(evlog) :
    /\ evlog[m].k = "act"
    /\ FrameAt(project, evlog[m].f).events[evlog[m].g].actions[evlog[m].i].type
         = "Add to score"

\* C19: when the rule pass of a tick is over, it has processed the active
\* groups of the scene in list order, each once; the actions of a group
\* have run, all of them in list order, exactly if the group is active,
\* has at least one condition and every condition was true after negation;
\* and a condition evaluated after the actions of earlier groups has the
\* value it has on the entities as those actions left them.
C19_GroupsInOrder ==
  pc \in {"physics", "error"} =>
    LET f      == PassFrame
        groups == SelectSeq(evlog, LAMBDA entry : entry.k = "group")
    IN  /\ \A n \in 1..Len(evlog) : evlog[n].f = f
        /\ Len(groups) = Len(ActiveGroupsOf(f))
        /\ \A n \in 1..Len(groups) : groups[n].g = ActiveGroupsOf(f)[n]
        /\ \A m, n \in 1..Len(evlog) : m < n => evlog[m].g <= evlog[n].g
        /\ \A g \in 1..Len(FrameAt(project, f).events) :
             LET acts == EntriesOf(g, "act")
             IN  IF Get(FrameAt(project, f).events[g], "active", TRUE)
                    /\ AllConditionsTrue(f, g)
                 THEN /\ Len(acts) = Len(FrameAt(project, f).events[g].actions)
                      /\ \A a \in 1..Len(acts) : acts[a].i = a
                 ELSE acts = << >>
        /\ \A n \in 1..Len(evlog) :
             ( /\ evlog[n].k = "eval"
               /\ ConditionsOf(evlog[n])[evlog[n].i].type = "Compare counter"
               /\ NothingActsAfter(n) )
             => evlog[n].val =
                  (eval_condition(Self, f, evlog[n].g, evlog[n].i).met
                     # ConditionsOf(evlog[n])[evlog[n].i].negated)

\* C20: a rule group whose comment text is not empty never executes: the
\* rule pass of a tick evaluates none of its conditions and runs none of
\* its actions, whatever conditions and actions it carries.
C20_CommentGroupNeverExecutes ==
  \A n \in 1..Len(evlog) :
    evlog[n].k \in {"eval", "act"} =>
      Get(FrameAt(project, evlog[n].f).events[evlog[n].g], "comment", "") = ""

\* selectors: the names and types of the scenes, the empty string and a
\* string that names nothing
Selectors ==
  { "Hero", "Gem", "Bat", "Floor", "uid_name", "Player", "Coin", "Enemy",
    "Platform", "Active", "", "Nobody" }

\* C21: find_entities(sel) returns the positions of exactly the entities of
\* the live list that are alive and whose name or type equals sel, in list
\* order, each once; and no "Collides with" condition of the rule pass of a
\* tick has worked on an entity that was not alive, also not on one
\* destroyed earlier in that pass.
C21_FindEntitiesAlive ==
  /\ \A sel \in Selectors :
       LET found == find_entities(entities, sel)
       IN  /\ \A k \in 1..Len(found) : found[k] \in 1..Len(entities)
           /\ \A k \in 1..(Len(found) - 1) : found[k] < found[k + 1]
           /\ Range(found) =
                { i \in 1..Len(entities) :
                    /\ entities[i].alive
                    /\ (entities[i].name = sel \/ entities[i].type = sel) }
  /\ \A d \in dead_checks : d[1] # "condition"

\* a rule pass is over in which a Destroy action ran and a "Collides with"
\* condition was evaluated after it, and the destroyed entity is still in
\* the live list
C21_Witness ==
  /\ pc = "physics"
  /\ \E i \in 1..Len(entities) : ~entities[i].alive /\ entities[i].type = "Coin"
  /\ \E m, n \in 1..Len(evlog) :
       /\ m < n
       /\ evlog[m].k = "act"
       /\ FrameAt(project, evlog[m].f).events[evlog[m].g].actions[evlog[m].i].type
            = "Destroy"
       /\ evlog[n].k = "eval"
       /\ ConditionsOf(evlog[n])[evlog[n].i].type = "Collides with"

\* C22: the empty selector means "any alive entity": find_entities("")
\* returns every alive entity of the live list, so that a targeted condition
\* or action with the empty target applies to all of them.
C22_EmptySelectorAnyAlive ==
  Range(find_entities(entities, "")) = { i \in 1..Len(entities) : entities[i].alive }


\* the simulation state an action can write
SimulationState ==
  << entities, score, lives, global_values, tick, current_frame_idx,
     frame_started, running, destroyed, project, next_uid >>

\* the step is a call of exec_action
IsExec == ticks_run' = ticks_run + 1 /\ evlog'[1].k = "exec"

\* the action types of exec_action that work on find_entities(target)
TargetedTypes ==
  { "Destroy", "Set position", "Set X", "Set Y", "Set speed", "Add to counter",
    "Set counter to", "Make invisible", "Make visible", "Flash", "Bounce" }

\* the entity e after the action, when it is the only entity of the scene
AloneAfter(action, e) == exec_action([Self EXCEPT !.entities = << e >>], action).entities[1]

\* C23: a targeted action changes every alive entity that matches its
\* selector the way it changes that entity alone, it changes no other entity
\* and not score, lives or the global values, and with no alive match it
\* changes nothing of the simulation state.
C23_TargetedActionOnEveryMatch ==
  [][ (IsExec /\ evlog'[1].action.type \in TargetedTypes) =>
        LET action  == evlog'[1].action
            matches == { i \in 1..Len(entities) :
                           /\ entities[i].alive
                           /\ \/ entities[i].name = action.target
                              \/ entities[i].type = action.target }
        IN  /\ ~evlog'[1].raised
            /\ Len(entities') = Len(entities)
            /\ \A i \in matches : entities'[i] = AloneAfter(action, entities[i])
            /\ \A i \in 1..Len(entities) \ matches : entities'[i] = entities[i]
            /\ << score, lives, global_values >>' = << score, lives, global_values >>
            /\ matches = {} => SimulationState' = SimulationState ]_vars

\* the second call of a session was "Set X" on the type Coin, and both coins
\* of the scene are at the new x and no other entity is
C23_Witness ==
  /\ ticks_run = 2
  /\ evlog[1].k = "exec"
  /\ evlog[1].action.type = "Set X"
  /\ evlog[1].action.target = "Coin"
  /\ Len(entities) = 4
  /\ \A i \in 1..4 : entities[i].type = "Coin" <=> entities[i].x = Px(3)
  /\ Cardinality({ i \in 1..4 : entities[i].type = "Coin" }) = 2


\* the type tags eval_condition has a branch for
ImplementedConditionTypes ==
  { "Always", "Never", "Once", "At start of frame", "Key pressed", "Every N ms",
    "Collides with", "Compare counter", "Mouse clicked", "Object out of playfield" }

\* the type tags exec_action has a branch for
ImplementedActionTypes ==
  TargetedTypes \cup
  { "Add to score", "Set score", "Subtract life", "Add life", "Go to frame",
    "Next frame (app)", "Restart frame", "End application", "Set global value",
    "Add to global value", "Create object" }

\* the step is a call of eval_condition
IsEval == ticks_run' = ticks_run + 1 /\ evlog'[1].k = "cond"

\* the condition a call of eval_condition was made for
EvaluatedCondition(entry) ==
  FrameAt(project, current_frame_idx).events[entry.g].conditions[1]

\* C24: a condition whose type eval_condition has no branch for evaluates to
\* false before negation, an action whose type exec_action has no branch for
\* leaves the simulation state as it is, and neither raises an exception or
\* ends the session.
C24_UnknownTypeHarmless ==
  [][ /\ (IsEval /\ EvaluatedCondition(evlog'[1]).type \notin ImplementedConditionTypes) =>
           /\ ~evlog'[1].met
           /\ ~evlog'[1].raised
           /\ pc' = pc
           /\ SimulationState' = SimulationState
      /\ (IsExec /\ evlog'[1].action.type \notin ImplementedActionTypes) =>
           /\ ~evlog'[1].raised
           /\ pc' = pc
           /\ SimulationState' = SimulationState ]_vars

\* the negated condition "Overlaps" has been evaluated, to false, and the
\* session goes on
C24_Witness ==
  /\ ticks_run > 0
  /\ evlog[1].k = "cond"
  /\ EvaluatedCondition(evlog[1]).type = "Overlaps"
  /\ EvaluatedCondition(evlog[1]).negated
  /\ ~evlog[1].met
  /\ running
  /\ pc # "error"


\* C25: "Set global value" and "Add to global value" with an index outside
\* 0..25 leave every global value as it is, with an index inside they change
\* that entry only, and there are 26 global values in every state.
C25_GlobalIndexBoundsChecked ==
  /\ [](Len(global_values) = NUM_GLOBALS)
  /\ [][ (IsExec /\ evlog'[1].action.type \in {"Set global value", "Add to global value"}) =>
           LET action == evlog'[1].action
               idx    == action.params.index
               val    == action.params.value
           IN  IF idx \in 0..(NUM_GLOBALS - 1)
               THEN /\ \A j \in 1..NUM_GLOBALS :
                         j # idx + 1 => global_values'[j] = global_values[j]
                    /\ global_values'[idx + 1] =
                         IF action.type = "Set global value"
                         THEN val ELSE global_values[idx + 1] + val
               ELSE global_values' = global_values ]_vars

\* "Set global value" with index 26 has been executed after another call had
\* set the last global value, and only that last value is not 0
C25_Witness ==
  /\ ticks_run = 2
  /\ evlog[1].k = "exec"
  /\ evlog[1].action.type = "Set global value"
  /\ evlog[1].action.params.index = NUM_GLOBALS
  /\ global_values[NUM_GLOBALS] = 3
  /\ \A j \in 1..(NUM_GLOBALS - 1) : global_values[j] = 0

\* C26: a condition with a malformed numeric parameter, here "Every N ms"
\* with the period 0, evaluates to false and raises no exception.
C26_MalformedConditionFails ==
  (/\ ticks_run > 0
   /\ evlog[1].k = "cond"
   /\ EvaluatedCondition(evlog[1]).type = "Every N ms"
   /\ EvaluatedCondition(evlog[1]).params.ms = 0)
  => (~evlog[1].met /\ ~evlog[1].raised /\ pc # "error")


\* the fired flags of the Once conditions of the runtime's project
FiredFlags ==
  [pos \in OncePositions(project) |->
     Get(FrameAt(project, pos[1]).events[pos[2]].conditions[pos[3]], "fired", FALSE)]

\* what a paused game_loop is to leave alone
PausedState ==
  << entities, score, lives, global_values, tick, current_frame_idx,
     frame_started, FiredFlags >>

\* C27: while paused is true an invocation of game_loop, like every other
\* step taken between two invocations, changes none of the live entities,
\* score, lives, global values, tick counter, scene index, just-started flag
\* and fired flags, and the next invocation stays scheduled.
C27_PausedLoopChangesNothing ==
  [][ (paused /\ running /\ pc \in {"call", "wait"}) =>
        (PausedState' = PausedState /\ pc' = "wait") ]_vars

\* game_loop has been invoked while paused, after at least one tick, in a
\* session that is still running
C27_Witness ==
  /\ paused
  /\ running
  /\ pc = "wait"
  /\ ticks_run > 0
  /\ phases = << >>
  /\ tick = ticks_run


\* the ids of the entities of a list
IdsOf(ents) == { ents[i].id : i \in 1..Len(ents) }

\* the ids of the authored objects of scene idx
AuthoredIds(idx) == IdsOf(FrameAt(project, idx).objects)

\* C28: no two entities of the live list have the same id, and an entity that
\* comes into the list is a clone of an authored object of the scene being
\* loaded or carries a value of uid() that no entity of the session has had,
\* pruned ones included.
C28_EntityIdsUnique ==
  /\ [](/\ \A i, j \in 1..Len(entities) : entities[i].id = entities[j].id => i = j
        /\ \A id \in IdsOf(entities) : id < next_uid)
  /\ [][ \A id \in IdsOf(entities') \ IdsOf(entities) :
           \/ id >= next_uid
           \/ loads' # loads /\ id \in AuthoredIds(current_frame_idx') ]_vars

\* "Create object" has made a second entity and the first one it made is no
\* longer in the list
C28_Witness ==
  /\ 1001 \in IdsOf(entities)
  /\ 1000 \notin IdsOf(entities)
  /\ next_uid = 1002
  /\ running


\* a Player-movement entity after "Move X": dx from the keys or friction,
\* then x += dx
MovedX(e) ==
  LET spd == Get(e, "speed", Px(5))
      d   == IF "Left" \in keys THEN 0 - spd
             ELSE IF "Right" \in keys THEN spd
             ELSE Friction(e.dx)
  IN  [e EXCEPT !.dx = d, !.x = @ + d]

\* positions of the solids other than itself the entity at position i
\* overlaps after "Move X"
OverlappedAfterMoveX(i) ==
  { j \in SolidsFor(entities, i) : aabb_overlap(MovedX(entities[i]), entities[j]) }

\* the x of the near edge of sol for the moved entity m, in the direction of
\* travel
NearEdge(m, sol) ==
  IF m.dx > 0 THEN sol.x - m.w ELSE IF m.dx < 0 THEN sol.x + sol.w ELSE m.x

\* C30: after update_physics a moving Player-movement entity is at the near
\* edge of every solid it overlapped after x += dx, with dx = 0, also when it
\* overlapped two or more solids.
C30_PushedOutOfEverySolid ==
  [][ PhysicsPhase =>
        \A i \in 1..Len(entities) :
          (entities[i].alive /\ entities[i].movement = "Player"
             /\ MovedX(entities[i]).dx # 0) =>
            \A j \in OverlappedAfterMoveX(i) :
              /\ entities'[i].dx = 0
              /\ entities'[i].x =
                   clamp(NearEdge(MovedX(entities[i]), entities[j]),
                         0 - entities[i].w,
                         FrameAt(project, current_frame_idx).width) ]_vars


\* C29: the scene the editor shows holds at most one object of type Player
\* after any sequence of insert_object, copy_object, paste_object,
\* duplicate_object and delete_selected_object.
C29_AtMostOnePlayer ==
  Cardinality({ i \in 1..Len(EditorObjects) : EditorObjects[i].type = "Player" }) <= 1




\* solids = [e for e in self.entities if e.get("alive") and e.get("solid")],
\* as positions
SolidsOf(ents) ==
  SelectSeq([i \in 1..Len(ents) |-> i], LAMBDA i : ents[i].alive /\ ents[i].solid)

\* a jump key is held
JumpKeyHeld == "Up" \in keys \/ "space" \in keys

\* positions of the alive entities with the Player movement
PlayerMovers == { i \in 1..Len(entities) :
                    entities[i].alive /\ entities[i].movement = "Player" }

\* the solids other than itself the entity at position i overlaps after
\* "Move Y"
OverlappedAfterMoveY(i) ==
  { j \in SolidsFor(entities, i) :
      aabb_overlap(PlayerMovedY(entities[i], entities, SolidsOf(entities)), entities[j]) }

\* C31: in update_physics a Player-movement entity gets the jump impulse
\* (dy = -12, then gravity) only if a jump key is held and it was grounded;
\* it is grounded afterwards only if it moved down into a solid, and then
\* dy is 0; moving up into a solid sets dy to 0 and leaves it not grounded.
C31_JumpAndGrounded ==
  [][ PhysicsPhase =>
        \A i \in PlayerMovers :
          LET e0 == entities[i]
              e  == entities'[i]
              m  == PlayerMovedY(e0, entities, SolidsOf(entities))
          IN  /\ e.dy \in { 0, IF JumpKeyHeld /\ e0.grounded
                               THEN JUMP_IMPULSE + GRAVITY
                               ELSE Min(e0.dy + GRAVITY, MAX_FALL) }
              /\ e.grounded => (m.dy > 0 /\ OverlappedAfterMoveY(i) # {} /\ e.dy = 0)
              /\ (m.dy < 0 /\ OverlappedAfterMoveY(i) # {}) =>
                   (e.dy = 0 /\ ~e.grounded) ]_vars

\* a grounded player has jumped with space held and hit the underside of
\* the solid above it: it is right below that solid with dy = 0 and is not
\* grounded
C31_Witness ==
  /\ pc = "prune"
  /\ "space" \in keys
  /\ \E i \in PlayerMovers :
       /\ ~entities[i].grounded
       /\ entities[i].dy = 0
       /\ entities[i].y < Px(68)
       /\ \E j \in SolidsFor(entities, i) :
            entities[i].y = entities[j].y + entities[j].h


\* positions of the alive entities with the Bouncing movement
Bouncers == { i \in 1..Len(entities) :
                entities[i].alive /\ entities[i].movement = "Bouncing" }

\* world width of the current scene
WorldWidth == FrameAt(project, current_frame_idx).width

\* the x of a Bouncing entity e after its move
BouncedX(e) == e.x + Get(e, "speed", Px(2)) * e.dir_x

\* the dir_x of a Bouncing entity e after its move and the edge test
EdgeDir(e) ==
  IF BouncedX(e) <= 0 \/ BouncedX(e) + e.w >= WorldWidth THEN 0 - e.dir_x ELSE e.dir_x

\* the solids other than itself that e at position i overlaps when its x is x
SolidsAt(i, x) ==
  { j \in SolidsFor(entities, i) : aabb_overlap([entities[i] EXCEPT !.x = x], entities[j]) }

ImplementedMovements == { "Player", "Bouncing", "8Dir" }

\* C35: update_physics leaves x, y, dx, dy, dir_x and grounded of every
\* entity whose movement is Static, Path, Platform, Race Car or any other tag
\* without a branch as they are, whatever keys are held and whatever solids
\* it overlaps, and raises no exception.
C35_OtherMovementsStay ==
  [][ pc = "physics" =>
        /\ pc' = "prune"
        /\ Len(entities') = Len(entities)
        /\ \A i \in 1..Len(entities) :
             Get(entities[i], "movement", "Static") \notin ImplementedMovements =>
               /\ entities'[i].x = entities[i].x
               /\ entities'[i].y = entities[i].y
               /\ entities'[i].dx = entities[i].dx
               /\ entities'[i].dy = entities[i].dy
               /\ entities'[i].dir_x = entities[i].dir_x
               /\ entities'[i].grounded = entities[i].grounded ]_vars

\* update_physics has run with Right and space held in the scene whose
\* objects have the movements Path, Race Car, Platform and Zigzag, nonzero
\* speed, and overlap a solid
C35_Witness ==
  /\ pc = "prune"
  /\ keys = {"Right", "space"}
  /\ \A mv \in {"Path", "Race Car", "Platform", "Zigzag", "Static"} :
       \E i \in 1..Len(entities) :
          /\ entities[i].movement = mv
          /\ \E j \in SolidsFor(entities, i) : aabb_overlap(entities[i], entities[j])


\* world height of the current scene
WorldHeight == FrameAt(project, current_frame_idx).height

\* the Player-movement entity at position i after "Resolve Y collisions"
AfterVerticalStep(i) ==
  ResolveY(PlayerMovedY(entities[i], entities, SolidsOf(entities)),
           entities, SolidsOf(entities), 1)

\* C32: after update_physics every alive Player-movement entity has
\* dy <= 15, -w <= x <= world width and y <= world height + 50; one that
\* ended the vertical step more than 50 below the world height is at y = 0
\* with dy = 0, and lives and score are as before.
C32_PlayerKeptInWorld ==
  [][ /\ \A i \in 1..Len(entities') :
           (entities'[i].alive /\ entities'[i].movement = "Player") =>
              /\ entities'[i].dy <= MAX_FALL
              /\ 0 - entities'[i].w <= entities'[i].x
              /\ entities'[i].x <= WorldWidth
              /\ entities'[i].y <= WorldHeight + FALL_MARGIN
      /\ \A i \in PlayerMovers :
           AfterVerticalStep(i).y > WorldHeight + FALL_MARGIN =>
              /\ entities'[i].y = 0
              /\ entities'[i].dy = 0
              /\ lives' = lives
              /\ score' = score ]_vars

\* a player that had reached the fall speed 15 has fallen out of the world
\* and is back at y = 0 with dy = 0, at the world's left edge
C32_Witness ==
  /\ tick > 30
  /\ \E i \in PlayerMovers :
       /\ entities[i].y = 0
       /\ entities[i].dy = 0
       /\ entities[i].x = 0 - entities[i].w


\* the Flash actions of the rule pass logged in log whose selector matches e
FlashesOn(log, e) ==
  { n \in 1..Len(log) :
      /\ log[n].k = "act"
      /\ LET action == FrameAt(project, log[n].f).events[log[n].g].actions[log[n].i]
         IN  action.type = "Flash" /\ Matches(e, action.target) }

\* the duration of the Flash action logged at position n of log
FlashDuration(log, n) ==
  FrameAt(project, log[n].f).events[log[n].g].actions[log[n].i].params.duration

\* C34: in a tick the flash timer of an alive entity becomes the duration d
\* of a Flash action that matched it, then decreases by 1 if it is positive
\* and never goes below 0; the entity is drawn in that tick exactly if it is
\* visible and not (timer positive and tick mod 4 < 2); apart from the timer
\* the tick changes the entity as it would without the flash.
C34_FlashTimerAndBlink ==
  [][ (tick' = tick + 1 /\ Len(entities') = Len(entities)) =>
        \A i \in 1..Len(entities) :
          entities[i].alive =>
            LET e0    == entities[i]
                e     == entities'[i]
                hits  == FlashesOn(evlog', e0)
                start == IF hits = {} THEN e0.flash_timer
                         ELSE FlashDuration(evlog', CHOOSE n \in hits : \A k \in hits : k <= n)
            IN  /\ e.flash_timer = IF start > 0 THEN start - 1 ELSE start
                /\ e.flash_timer >= 0
                /\ e.id \in Range(drawn') <=>
                     (e.visible /\ ~(e.flash_timer > 0 /\ tick % 4 < 2))
                /\ [e EXCEPT !.flash_timer = 0] =
                     PhysicsStep([e0 EXCEPT !.flash_timer = 0], entities,
                                 SolidsOf(entities), WorldWidth, WorldHeight) ]_vars

\* five ticks after Flash(6): the timer of a moving enemy is 1 and the last
\* render, at tick 4, left the enemy out, after the renders at ticks 2 and 3
\* had drawn it
C34_Witness ==
  /\ tick = 5
  /\ \E i \in Bouncers :
       /\ entities[i].flash_timer = 1
       /\ entities[i].visible
       /\ entities[i].id \notin Range(drawn)
       /\ entities[i].x > Px(300)


\* every alive Bouncing entity lies within the world horizontally
BouncersInside ==
  \A i \in Bouncers :
    0 <= entities[i].x /\ entities[i].x + entities[i].w <= WorldWidth

\* no alive Bouncing entity is more than one step beyond a world edge
BouncersNearWorld ==
  \A i \in Bouncers :
    /\ 0 - entities[i].speed <= entities[i].x
    /\ entities[i].x + entities[i].w <= WorldWidth + entities[i].speed

\* C38: a Bouncing entity with speed > 0 in a scene without solids in its
\* way, wherever it is placed, eventually lies within the world horizontally
\* and from then on is never more than one step beyond a world edge.
C38_BouncerComesInside == <>(BouncersInside /\ []BouncersNearWorld)


\* the calls that were an undo on a non-empty undo stack directly followed
\* by a redo handed the state that undo returned
UndoRedoPairs ==
  { n \in 2..Len(undo_calls) :
      /\ undo_calls[n - 1].op = "undo"
      /\ undo_calls[n - 1].undo_before # << >>
      /\ undo_calls[n].op = "redo"
      /\ << undo_calls[n].arg >> = undo_calls[n - 1].ret }

\* C39: undo(s) on a non-empty undo stack followed directly by redo(t), t
\* being what undo returned, returns s and leaves both stacks as they were
\* before the undo; undo on an empty undo stack and redo on an empty redo
\* stack return None and change neither stack.
C39_UndoThenRedo ==
  /\ \A n \in UndoRedoPairs :
       /\ undo_calls[n].ret = << undo_calls[n - 1].arg >>
       /\ undo_calls[n].undo_after = undo_calls[n - 1].undo_before
       /\ undo_calls[n].redo_after = undo_calls[n - 1].redo_before
  /\ \A n \in 1..Len(undo_calls) :
       LET c == undo_calls[n]
       IN  (\/ c.op = "undo" /\ c.undo_before = << >>
            \/ c.op = "redo" /\ c.redo_before = << >>)
           => /\ c.ret = << >>
              /\ c.undo_after = c.undo_before
              /\ c.redo_after = c.redo_before

\* a redo on an empty redo stack, and later an undo on two different
\* snapshots followed by a redo handed what the undo returned
C39_Witness ==
  /\ \E n \in UndoRedoPairs :
       /\ Len(undo_calls[n - 1].undo_before) = 2
       /\ undo_calls[n - 1].undo_before[1] # undo_calls[n - 1].undo_before[2]
       /\ undo_calls[n - 1].arg # undo_calls[n].arg
  /\ \E n \in 1..Len(undo_calls) :
       undo_calls[n].op = "redo" /\ undo_calls[n].redo_before = << >>

\* C40: after any sequence of push, undo and redo calls the two stacks
\* together hold at most max_history snapshots, and a push on a full undo
\* stack drops the oldest snapshot and keeps the others in order.
C40_HistoryBounded ==
  /\ Len(undo_stack) + Len(redo_stack) <= max_history
  /\ \A n \in 1..Len(undo_calls) :
       LET c == undo_calls[n]
       IN  (c.op = "push" /\ Len(c.undo_before) = max_history)
           => c.undo_after = Append(Tail(c.undo_before), c.arg)

\* a push dropped the oldest of two different snapshots
C40_Witness ==
  \E n \in 1..Len(undo_calls) :
    /\ undo_calls[n].op = "push"
    /\ Len(undo_calls[n].undo_before) = 2
    /\ max_history = 2
    /\ undo_calls[n].undo_before[1] # undo_calls[n].undo_before[2]
    /\ undo_calls[n].undo_after = << undo_calls[n].undo_before[2], undo_calls[n].arg >>

\* C36: when a load_frame succeeded during the rule pass of a tick, nothing
\* the pass did after the last load changed the entities of the loaded scene:
\* they reach the physics phase as load_frame built them.
C36_LoadedSceneReachesPhysicsUntouched ==
  [][ (pc = "events" /\ pc' = "physics" /\ loads' # << >>) =>
        entities' = loads'[Len(loads')].entities ]_vars

\* C37: in a session started with lives >= 0, lives is never below 0, also
\* when several players are hurt by an enemy in the same tick.
C37_LivesNeverNegative == lives >= 0

====
